---- MODULE Spec2Model ----
(***************************************************************************)
(* FloatProcessor: the Navis telemetry decoder (process.import_navis_msg)  *)
(* and the rt / bash drivers that consume the decoded profile.             *)
(*                                                                         *)
(* A transmission is read line by line.  A line is a record                *)
(*   mark : the first marker substring of the elif chain it contains       *)
(*          ("none" when it contains no marker),                           *)
(*   text : its characters, the line terminator included,                  *)
(*   dt, lat, lon : the values carried by a 'terminated' or 'Fix:' line.   *)
(* Characters are 0..15 (the hexadecimal digits), XX (any character that   *)
(* is not a hexadecimal digit) and NL (the line terminator).  Marker lines *)
(* are well formed; data rows may hold any of these characters.            *)
(***************************************************************************)
EXTENDS Integers, Sequences, FiniteSets, TLC

VARIABLES l, d, obs, park_obs, obs_begin, obs_end, crv_on, pc, nread,
          driver, calls, msg_db, ret,
          provor, proc, npq, reg,
          csv, batch, meta, pjm

vars == <<l, d, obs, park_obs, obs_begin, obs_end, crv_on, pc, nread,
          driver, calls, msg_db, ret, provor, proc, npq, reg,
          csv, batch, meta, pjm>>

decoder_vars == <<l, d, obs, park_obs, obs_begin, obs_end, crv_on, pc, nread>>

driver_vars == <<driver, calls, msg_db, ret>>

\* The Navis decoder and its drivers.
navis_vars == <<l, d, obs, park_obs, obs_begin, obs_end, crv_on, pc, nread,
                driver, calls, msg_db, ret>>

\* csv: one call of export_csv; batch: the loop of bash over floats and
\* messages; meta: the meta table of update_db; pjm: convert_msg2pjm.
tool_vars == <<csv, batch, meta, pjm>>

\* provor: import_provor_msg; proc: process_L1 / process_L2 on one profile;
\* npq: one call of npq_correction; reg: one call of regress2.

\* Longest transmission read, in lines.
MaxLines == 4

----------------------------------------------------------------------------
(* Characters and numbers *)

XX == 16

NL == 17

\* int(s, 16) raises ValueError: modelled as a negative result.
ValueError == -1

\* The missing value float('nan'); a number is num/den with den > 0.
NaN == [num |-> 0, den |-> 0]

Q(num, den) == [num |-> num, den |-> den]

\* Python None for dt, lat, lon and profile_id, whose values are non-zero here.
None == 0

Min(a, b) == IF a < b THEN a ELSE b

\* Python slice s[a:b] of a string (0-based, clipped to the length).
Slice(s, a, b) == SubSeq(s, a + 1, Min(b, Len(s)))

\* str.strip() as int() applies it: the terminator is the only whitespace
\* of the alphabet and it only ends a line.
Strip(s) == IF Len(s) > 0 /\ s[Len(s)] = NL THEN SubSeq(s, 1, Len(s) - 1) ELSE s

RECURSIVE HexDigits(_, _)
HexDigits(s, acc) ==
    IF Len(s) = 0 THEN acc
    ELSE IF s[1] > 15 THEN ValueError
    ELSE HexDigits(Tail(s), acc * 16 + s[1])

\* int(s, 16)
Int16(s) == IF Len(Strip(s)) = 0 THEN ValueError ELSE HexDigits(Strip(s), 0)

\* '%0wX' % v, the digits of v on w characters (how the float writes a field).
RECURSIVE Hex(_, _)
Hex(v, w) == IF w = 0 THEN <<>> ELSE Hex(v \div 16, w - 1) \o <<v % 16>>

RECURSIVE Rep(_, _)
Rep(c, k) == IF k = 0 THEN <<>> ELSE <<c>> \o Rep(c, k - 1)

----------------------------------------------------------------------------
(* Field decoding rules of a data row *)

\* valid_obs_len with a 30-character row accepted as well.
valid_obs_len_short == {30 + 1, 60 + 1, 72 + 1}

valid_obs_len == {60 + 1, 72 + 1}

\* SignDecode with the midpoint taken for a positive code.
SignDecode_mid(foo, mid, scale) ==
    IF foo <= mid THEN Q(foo, scale) ELSE Q(foo - 65536, scale)

\* Two-range sign decoding of a 16-bit field.
SignDecode(foo, mid, scale) ==
    IF foo < mid THEN Q(foo, scale)
    ELSE IF foo > mid THEN Q(foo - 65536, scale)
    ELSE NaN

\* SentinelDecode with the sentinel test left out.
SentinelDecode_raw(foo, sentinel, off, den) == Q(foo - off, den)

\* Sentinel decoding: float(foo) / den - off / den, or foo - off when den = 1.
SentinelDecode(foo, sentinel, off, den) ==
    IF foo = sentinel THEN NaN ELSE Q(foo - off, den)

Sign(ch, a, b, mid, scale) ==
    [ch |-> ch, a |-> a, b |-> b, rule |-> "sign", mid |-> mid,
     scale |-> scale, sentinel |-> 0, off |-> 0]

Sent(ch, a, b, sentinel, off, den) ==
    [ch |-> ch, a |-> a, b |-> b, rule |-> "sentinel", mid |-> 0,
     scale |-> den, sentinel |-> sentinel, off |-> off]

\* Fields decoded for every accepted row, in the order of the code.
CommonFields ==
    << Sign("p", 0, 4, 32768, 10),
       Sign("t", 4, 8, 61440, 1000),
       Sign("s", 8, 12, 61440, 1000),
       Sent("o2_ph", 14, 20, 16777215, 1000000, 100000),
       Sent("o2_t", 20, 26, 16777215, 1000000, 1000000),
       Sent("fchl", 28, 34, 16777215, 500, 1),
       Sent("beta", 34, 40, 16777215, 500, 1),
       Sent("fdom", 40, 46, 16777215, 500, 1) >>

\* Tail of the row when the cRover package is on.
CroverFields ==
    << Sent("c_count", 48, 52, 65535, 200, 1),
       Sent("c_su", 52, 58, 16777215, 10000, 1000),
       Sent("par", 60, 66, 16777215, 0, 1),
       Sent("tilt", 68, 70, 255, 0, 10),
       Sent("tilt_std", 70, 72, 255, 0, 100) >>

\* Tail of the row without cRover.
PlainFields ==
    << Sent("par", 48, 54, 16777215, 0, 1),
       Sent("tilt", 56, 58, 255, 0, 10),
       Sent("tilt_std", 58, 60, 255, 0, 100) >>

Layout(crv) == CommonFields \o (IF crv THEN CroverFields ELSE PlainFields)

DecodeField(fd, foo) ==
    IF fd.rule = "sign" THEN SignDecode(foo, fd.mid, fd.scale)
    ELSE SentinelDecode(foo, fd.sentinel, fd.off, fd.scale)

\* The body of the data-row branch: the fields are decoded and appended one
\* after the other; the first int() that raises ends the whole decode and
\* leaves the earlier appends of the row in place.
RECURSIVE DecodeRow(_, _, _)
DecodeRow(o, text, fields) ==
    IF Len(fields) = 0 THEN [obs |-> o, raised |-> FALSE]
    ELSE LET fd  == Head(fields)
             foo == Int16(Slice(text, fd.a, fd.b))
         IN IF foo = ValueError THEN [obs |-> o, raised |-> TRUE]
            ELSE DecodeRow([o EXCEPT ![fd.ch] = Append(@, DecodeField(fd, foo))],
                           text, Tail(fields))

----------------------------------------------------------------------------
(* The lines a transmission is made of *)

MarkerLine(mark, len, dt, lat, lon) ==
    [mark |-> mark, text |-> Rep(XX, len - 1) \o <<NL>>,
     dt |-> dt, lat |-> lat, lon |-> lon]

DataLine(text) == [mark |-> "none", text |-> text, dt |-> 0, lat |-> 0, lon |-> 0]

\* A 60-character data row (no cRover), terminator added.
Row61(p, t, s, o2_ph, o2_t, fchl, beta, fdom, par, tilt, tilt_std) ==
    Hex(p, 4) \o Hex(t, 4) \o Hex(s, 4) \o <<0, 0>> \o Hex(o2_ph, 6)
    \o Hex(o2_t, 6) \o <<0, 0>> \o Hex(fchl, 6) \o Hex(beta, 6)
    \o Hex(fdom, 6) \o <<0, 0>> \o Hex(par, 6) \o <<0, 0>> \o Hex(tilt, 2)
    \o Hex(tilt_std, 2) \o <<NL>>

\* A 72-character data row (cRover on), terminator added.
Row73(p, t, s, o2_ph, o2_t, fchl, beta, fdom, c_count, c_su, par, tilt, tilt_std) ==
    Hex(p, 4) \o Hex(t, 4) \o Hex(s, 4) \o <<0, 0>> \o Hex(o2_ph, 6)
    \o Hex(o2_t, 6) \o <<0, 0>> \o Hex(fchl, 6) \o Hex(beta, 6)
    \o Hex(fdom, 6) \o <<0, 0>> \o Hex(c_count, 4) \o Hex(c_su, 6)
    \o <<0, 0>> \o Hex(par, 6) \o <<0, 0>> \o Hex(tilt, 2)
    \o Hex(tilt_std, 2) \o <<NL>>

\* Replace the character at 0-based position i.
Corrupt(text, i) == [text EXCEPT ![i + 1] = XX]

\* '00000000000000FFFFFFFFFFFF00FFFFFFFFFFFFFFFFFF00FFFFFFFFFFFFFFFFFF00FFFF'
ZerosText ==
    Rep(0, 14) \o Rep(15, 12) \o <<0, 0>> \o Rep(15, 18) \o <<0, 0>>
    \o Rep(15, 18) \o <<0, 0>> \o Rep(15, 4) \o <<NL>>

RowA == Row61(32767, 61439, 61441, 16777215, 1500000, 16777215, 600, 16777215,
              16777215, 255, 12)

RowB == Row61(32768, 61440, 61440, 1234567, 16777215, 700, 16777215, 520,
              90, 30, 255)

RowC == Row73(32769, 61441, 61439, 16777215, 16777215, 16777215, 16777215,
              16777215, 65535, 16777215, 16777215, 255, 255)

RowD == Row73(105, 20123, 35012, 1234567, 1500000, 700, 600, 520,
              300, 12345, 90, 30, 12)

HeaderLines ==
    { MarkerLine("ProfileId=", 30, 0, 0, 0),
      MarkerLine("terminated", 30, 1, 0, 0),
      MarkerLine("terminated", 30, 2, 0, 0),
      MarkerLine("Fix:", 30, 3, 45, -50),
      MarkerLine("Fix:", 30, 4, 46, -51),
      MarkerLine("ParkObs:", 30, 0, 0, 0) }

StructureLines ==
    { MarkerLine("cRover", 30, 0, 0, 0),
      MarkerLine("cRover", 73, 0, 0, 0),
      MarkerLine("ser1", 30, 0, 0, 0),
      MarkerLine("Resm", 30, 0, 0, 0),
      [mark |-> "zeros", text |-> ZerosText, dt |-> 0, lat |-> 0, lon |-> 0] }

GoodRows == { DataLine(RowA), DataLine(RowB), DataLine(RowC), DataLine(RowD) }

\* Rows of an accepted length with a character that is not a hexadecimal
\* digit, and a truncated row.
BadRows ==
    { DataLine(Corrupt(RowB, 30)), DataLine(Corrupt(RowD, 1)),
      DataLine(SubSeq(RowA, 1, 30) \o <<NL>>) }

Lines == HeaderLines \cup StructureLines \cup GoodRows \cup BadRows

Channels == {"p", "t", "s", "o2_ph", "o2_t", "fchl", "beta", "fdom",
             "par", "tilt", "tilt_std"}

CroverChannels == {"c_count", "c_su"}

----------------------------------------------------------------------------
(* import_navis_msg *)

\* No call of the corresponding function is in progress.
Idle == [pc |-> "idle"]

InitNavis ==
    /\ l = DataLine(<<>>)
    /\ d = [dt |-> None, lat |-> None, lon |-> None, profile_id |-> None]
    /\ obs = [k \in Channels |-> <<>>]
    /\ park_obs = <<>>
    /\ obs_begin = FALSE
    /\ obs_end = FALSE
    /\ crv_on = FALSE
    /\ pc = "loop"
    /\ nread = 0
    /\ driver = "none"
    /\ calls = <<>>
    /\ msg_db = "unbound"
    /\ ret = "running"

Init ==
    /\ InitNavis
    /\ csv = Idle /\ batch = Idle /\ meta = Idle /\ pjm = Idle
    /\ provor = Idle
    /\ proc = Idle
    /\ npq = Idle
    /\ reg = Idle

\* for l in f: the next line is read.
Read(x) ==
    /\ pc = "loop"
    /\ nread < MaxLines
    /\ l' = x
    /\ nread' = nread + 1
    /\ UNCHANGED driver_vars
    /\ UNCHANGED <<provor, proc, npq, reg>>
    /\ UNCHANGED tool_vars

\* elif l.find('ProfileId=') != -1
ReadProfileId(x) ==
    /\ Read(x)
    /\ x.mark = "ProfileId="
    /\ d' = [d EXCEPT !.profile_id = 7]
    /\ UNCHANGED <<obs, park_obs, obs_begin, obs_end, crv_on, pc>>

\* TerminatedDt keeping a date that is already set.
TerminatedDt_first(dt, term_dt) == IF dt = None THEN term_dt ELSE dt

\* The date a 'terminated' line leaves in d['dt'].
TerminatedDt(dt, term_dt) == term_dt

\* elif l.find('terminated') != -1
ReadTerminated(x) ==
    /\ Read(x)
    /\ x.mark = "terminated"
    /\ d' = [d EXCEPT !.dt = TerminatedDt(d.dt, x.dt)]
    /\ UNCHANGED <<obs, park_obs, obs_begin, obs_end, crv_on, pc>>

\* FixDt overwriting the date whatever it holds.
FixDt_always(dt, fix_dt) == fix_dt

\* The date a 'Fix:' line leaves in d['dt'].
FixDt(dt, fix_dt) == IF dt = None THEN fix_dt ELSE dt

\* elif l.find('Fix:') != -1
ReadFix(x) ==
    /\ Read(x)
    /\ x.mark = "Fix:"
    /\ d' = [d EXCEPT !.lat = x.lat, !.lon = x.lon, !.dt = FixDt(d.dt, x.dt)]
    /\ UNCHANGED <<obs, park_obs, obs_begin, obs_end, crv_on, pc>>

\* The cRover branch is taken only while crv_on is still False.
CroverBranch(x, crv) == x.mark = "cRover" /\ ~crv

\* elif (l.find('cRover') != -1 or l.find('Crover') != -1) and not crv_on
ReadCrover(x) ==
    /\ Read(x)
    /\ CroverBranch(x, crv_on)
    /\ crv_on' = TRUE
    /\ obs' = [k \in DOMAIN obs \cup CroverChannels |->
                 IF k \in CroverChannels THEN <<>> ELSE obs[k]]
    /\ UNCHANGED <<d, park_obs, obs_begin, obs_end, pc>>

\* elif l.find('ParkObs:') != -1
ReadParkObs(x) ==
    /\ Read(x)
    /\ x.mark = "ParkObs:"
    /\ park_obs' = Append(park_obs, Q(9995, 10))
    /\ UNCHANGED <<d, obs, obs_begin, obs_end, crv_on, pc>>

\* elif l.find('ser1') != -1
ReadSer1(x) ==
    /\ Read(x)
    /\ x.mark = "ser1"
    /\ obs_begin' = TRUE
    /\ UNCHANGED <<d, obs, park_obs, obs_end, crv_on, pc>>

\* elif l.find('Resm') != -1
ReadResm(x) ==
    /\ Read(x)
    /\ x.mark = "Resm"
    /\ obs_end' = TRUE
    /\ UNCHANGED <<d, obs, park_obs, obs_begin, crv_on, pc>>

\* elif l.find('0000...FFFF') != -1: continue
ReadZeros(x) ==
    /\ Read(x)
    /\ x.mark = "zeros"
    /\ UNCHANGED <<d, obs, park_obs, obs_begin, obs_end, crv_on, pc>>

\* The line reaches the data-row test: no earlier branch of the chain took it.
ReachesObsTest(x, crv) ==
    x.mark = "none" \/ (x.mark = "cRover" /\ crv)

\* InProfile without the test of obs_end.
InProfile_open(begin, end) == begin

InProfile(begin, end) == begin /\ ~end

AcceptedLen(text) == Len(text) \in valid_obs_len

\* elif obs_begin and not obs_end and len(l) in valid_obs_len
IsObsRow(x, begin, end) == InProfile(begin, end) /\ AcceptedLen(x.text)

ReadObs(x) ==
    /\ Read(x)
    /\ ReachesObsTest(x, crv_on)
    /\ IsObsRow(x, obs_begin, obs_end)
    /\ LET r == DecodeRow(obs, x.text, Layout(crv_on))
       IN /\ obs' = r.obs
          /\ pc' = IF r.raised THEN "raised" ELSE "loop"
    /\ UNCHANGED <<d, park_obs, obs_begin, obs_end, crv_on>>

\* No branch of the chain takes the line (the engineering and <EOT> branches,
\* which only set scalars of d, are not part of the alphabet).
ReadOther(x) ==
    /\ Read(x)
    /\ ReachesObsTest(x, crv_on)
    /\ ~IsObsRow(x, obs_begin, obs_end)
    /\ UNCHANGED <<d, obs, park_obs, obs_begin, obs_end, crv_on, pc>>

\* End of file: d['obs'] = obs; return d
Return ==
    /\ pc = "loop"
    /\ pc' = "returned"
    /\ UNCHANGED <<l, d, obs, park_obs, obs_begin, obs_end, crv_on, nread>>
    /\ UNCHANGED driver_vars
    /\ UNCHANGED <<provor, proc, npq, reg>>
    /\ UNCHANGED tool_vars

ReadLine(x) ==
    \/ ReadProfileId(x)
    \/ ReadTerminated(x)
    \/ ReadFix(x)
    \/ ReadCrover(x)
    \/ ReadParkObs(x)
    \/ ReadSer1(x)
    \/ ReadResm(x)
    \/ ReadZeros(x)
    \/ ReadObs(x)
    \/ ReadOther(x)

Next ==
    \/ \E x \in Lines : ReadLine(x)
    \/ Return

Spec == Init /\ [][Next]_vars

TypeOK ==
    /\ pc \in {"loop", "returned", "raised"}
    /\ nread \in 0..MaxLines
    /\ DOMAIN obs \subseteq Channels \cup CroverChannels

----------------------------------------------------------------------------
(* rt and bash: what the drivers do with the decoded profile.               *)
(* calls lists, in order, the pipeline stages and collaborators invoked     *)
(* after import_navis_msg; ret is the outcome of rt, or of one iteration of *)
(* the message loop of bash ("next": the loop goes on to the next message). *)

\* app_cfg[...]['active'][mode] of the four sections read by the drivers.
AppCfgs == [process : BOOLEAN, argo_primary : BOOLEAN,
            argo_alternate : BOOLEAN, dashboard : BOOLEAN]

Stage(c, r, db) == [calls |-> c, ret |-> r, msg_db |-> db]

\* len(msg_l0['obs']['p']) > 0
NotEmpty(o) == Len(o["p"]) > 0

\* if app_cfg['process']['active'][mode] and len(msg_l0['obs']['p']) > 0
ProcessGuard(active, o) == active /\ NotEmpty(o)

\* The three export_csv calls; '{0:03d}'.format(None) raises TypeError.
ExportStage(c, profile_id) ==
    IF profile_id = None
    THEN Stage(c \o <<"export_csv_L0">>, "raised", "unbound")
    ELSE Stage(c \o <<"export_csv_L0", "export_csv_L1", "export_csv_L2">>,
               "go", "l2")

\* rt, process.py 1012-1037
RtProcess_export_first(cfg, l1ok, l2ok) ==
    IF ProcessGuard(cfg.process, obs)
    THEN IF ~l1ok THEN Stage(<<"process_L1">>, "-1", "unbound")
         ELSE IF ~l2ok
         THEN Stage(<<"process_L1", "export_csv_L0", "process_L2">>, "-1", "unbound")
         ELSE ExportStage(<<"process_L1", "process_L2">>, d.profile_id)
    ELSE Stage(<<>>, "go", "l0")

RtProcess(cfg, l1ok, l2ok) ==
    IF ProcessGuard(cfg.process, obs)
    THEN IF ~l1ok THEN Stage(<<"process_L1">>, "-1", "unbound")
         ELSE IF ~l2ok THEN Stage(<<"process_L1", "process_L2">>, "-1", "unbound")
         ELSE ExportStage(<<"process_L1", "process_L2">>, d.profile_id)
    ELSE Stage(<<>>, "go", "l0")

\* bash, process.py 1237-1263; prev is msg_db as the previous message left it.
BashProcess(cfg, l1ok, l2ok, prev) ==
    IF ProcessGuard(cfg.process, obs)
    THEN IF ~l1ok
         THEN Stage(<<"process_L1">>,
                    IF prev = "unbound" THEN "raised" ELSE "next", prev)
         ELSE IF ~l2ok THEN Stage(<<"process_L1", "process_L2">>, "-1", prev)
         ELSE ExportStage(<<"process_L1", "process_L2">>, d.profile_id)
    ELSE Stage(<<>>, "go", "l0")

\* Upload data on Argo server
Upload(st, cfg) ==
    IF st.ret # "go" THEN st
    ELSE [st EXCEPT !.calls =
            @ \o (IF cfg.argo_primary THEN <<"upload_primary">> ELSE <<>>)
              \o (IF cfg.argo_alternate THEN <<"upload_alternate">> ELSE <<>>)]

\* The json exports of a non-empty profile: the profile file name formats
\* profile_id, and export_msg_to_json_contour_plot is not defined.
JsonExports(st) ==
    IF d.profile_id = None
    THEN [st EXCEPT !.calls = @ \o <<"export_msg_to_json_profile">>,
                    !.ret = "raised"]
    ELSE [st EXCEPT !.calls = @ \o <<"export_msg_to_json_profile",
                                     "export_msg_to_json_timeseries">>,
                    !.ret = "raised"]

\* rt, process.py 1045-1070
RtDashboard(st, cfg) ==
    IF st.ret # "go" THEN st
    ELSE IF ~cfg.dashboard \/ d.dt = None THEN [st EXCEPT !.ret = "None"]
    ELSE LET s1 == [st EXCEPT !.calls = @ \o <<"update_float_status">>]
         IN IF NotEmpty(obs) THEN JsonExports(s1)
            ELSE [s1 EXCEPT !.calls = @ \o <<"update_db">>, !.ret = "None"]

\* bash, process.py 1271-1297
BashDashboard(st, cfg) ==
    IF st.ret # "go" THEN st
    ELSE IF ~cfg.dashboard THEN [st EXCEPT !.ret = "next"]
    ELSE IF NotEmpty(obs) THEN JsonExports(st)
    ELSE [st EXCEPT !.calls = @ \o <<"update_db">>, !.ret = "next"]

RtRun(cfg, l1ok, l2ok) ==
    IF pc = "raised" THEN Stage(<<>>, "raised", "unbound")
    ELSE RtDashboard(Upload(RtProcess(cfg, l1ok, l2ok), cfg), cfg)

BashRun(cfg, l1ok, l2ok, prev) ==
    IF pc = "raised" THEN Stage(<<>>, "raised", prev)
    ELSE BashDashboard(Upload(BashProcess(cfg, l1ok, l2ok, prev), cfg), cfg)

\* rt(_msg_name) once import_navis_msg has ended.
rt(cfg, l1ok, l2ok) ==
    /\ pc \in {"returned", "raised"}
    /\ driver = "none"
    /\ LET st == RtRun(cfg, l1ok, l2ok)
       IN /\ calls' = st.calls
          /\ ret' = st.ret
          /\ msg_db' = st.msg_db
    /\ driver' = "rt"
    /\ UNCHANGED decoder_vars
    /\ UNCHANGED <<provor, proc, npq, reg>>
    /\ UNCHANGED tool_vars

\* One iteration of 'for msg_name in msg_list' of bash, for the first message.
bash(cfg, l1ok, l2ok) ==
    /\ pc \in {"returned", "raised"}
    /\ driver = "none"
    /\ LET st == BashRun(cfg, l1ok, l2ok, msg_db)
       IN /\ calls' = st.calls
          /\ ret' = st.ret
          /\ msg_db' = st.msg_db
    /\ driver' = "bash"
    /\ UNCHANGED decoder_vars
    /\ UNCHANGED <<provor, proc, npq, reg>>
    /\ UNCHANGED tool_vars

NextRun ==
    \/ \E x \in Lines : ReadLine(x)
    \/ Return
    \/ \E cfg \in AppCfgs, l1ok \in BOOLEAN, l2ok \in BOOLEAN : rt(cfg, l1ok, l2ok)
    \/ \E cfg \in AppCfgs, l1ok \in BOOLEAN, l2ok \in BOOLEAN : bash(cfg, l1ok, l2ok)

SpecRun == Init /\ [][NextRun]_vars

----------------------------------------------------------------------------
(* Properties of import_navis_msg *)

Last(q) == q[Len(q)]

\* A line has been read by this step.
LineRead == nread' = nread + 1

\* This step appended a sample to channel k.
Appended(k) == k \in DOMAIN obs /\ Len(obs'[k]) = Len(obs[k]) + 1

\* No sample is added to any channel by this step.
NoSample ==
    /\ \A k \in DOMAIN obs : obs'[k] = obs[k]
    /\ \A k \in DOMAIN obs' \ DOMAIN obs : obs'[k] = <<>>

\* C1: in the obs mapping returned by import_navis_msg all channel lists
\* have the same length, c_count and c_su included.
C1_EqualLength ==
    pc = "returned" =>
        \A j \in DOMAIN obs, k \in DOMAIN obs : Len(obs[j]) = Len(obs[k])

Malformed(text, crv) ==
    \E i \in DOMAIN Layout(crv) :
        Int16(Slice(text, Layout(crv)[i].a, Layout(crv)[i].b)) = ValueError

\* C3: a malformed row of an accepted length read inside the profile region
\* is dropped (no sample of it is kept) and the decode goes on.
C3_MalformedRowDropped ==
    [][(LineRead /\ obs_begin /\ ~obs_end /\ l'.mark = "none"
        /\ Len(l'.text) \in {61, 73} /\ Malformed(l'.text, crv_on))
        => (NoSample /\ pc' = "loop")]_vars

C4_Expected(v, mid, scale) ==
    IF v < mid THEN Q(v, scale)
    ELSE IF v > mid THEN Q(v - 65536, scale)
    ELSE NaN

\* C4: the pressure, temperature and salinity samples appended for a row
\* are v/scale below the midpoint, (v - 65536)/scale above it and NaN at it,
\* with midpoint 32768 and scale 10 for p, 61440 and 1000 for t and s.
C4_SignDecoding ==
    [][/\ Appended("p") =>
            Last(obs'["p"]) = C4_Expected(Int16(Slice(l'.text, 0, 4)), 32768, 10)
       /\ Appended("t") =>
            Last(obs'["t"]) = C4_Expected(Int16(Slice(l'.text, 4, 8)), 61440, 1000)
       /\ Appended("s") =>
            Last(obs'["s"]) = C4_Expected(Int16(Slice(l'.text, 8, 12)), 61440, 1000)]_vars

C4_Witness ==
    /\ Len(obs["s"]) = 3
    /\ \E i \in 1..3 : obs["p"][i] = Q(-32767, 10) /\ obs["t"][i] = Q(-4095, 1000)
    /\ \E i \in 1..3 : obs["p"][i] = NaN /\ obs["t"][i] = NaN /\ obs["s"][i] = NaN
    /\ \E i \in 1..3 : obs["p"][i] = Q(32767, 10) /\ obs["s"][i] = Q(-4095, 1000)

C5_AllOnes(ch) ==
    IF ch = "c_count" THEN 65535
    ELSE IF ch \in {"tilt", "tilt_std"} THEN 255
    ELSE 16777215

C5_Fields(crv) ==
    {Layout(crv)[i] : i \in {j \in DOMAIN Layout(crv) : Layout(crv)[j].rule = "sentinel"}}

\* C5: a field equal to its all-ones sentinel is appended as NaN, any other
\* value of the field as a number that is not missing.
C5_SentinelDecoding ==
    [][\A fd \in C5_Fields(crv_on) :
         Appended(fd.ch) =>
            LET v == Int16(Slice(l'.text, fd.a, fd.b))
            IN IF v = C5_AllOnes(fd.ch)
               THEN Last(obs'[fd.ch]) = NaN
               ELSE Last(obs'[fd.ch]).den > 0]_vars

C5_Witness ==
    /\ crv_on
    /\ Len(obs["tilt_std"]) = 2
    /\ \E i \in 1..2 : /\ obs["c_count"][i] = NaN /\ obs["c_su"][i] = NaN
                       /\ obs["par"][i] = NaN /\ obs["tilt"][i] = NaN
                       /\ obs["o2_ph"][i] = NaN /\ obs["fdom"][i] = NaN
    /\ \E i \in 1..2 : /\ obs["c_count"][i] = Q(100, 1)
                       /\ obs["c_su"][i] = Q(2345, 1000)
                       /\ obs["par"][i] = Q(90, 1) /\ obs["tilt"][i] = Q(30, 10)
                       /\ obs["fchl"][i] = Q(200, 1)

\* C6: samples are appended only by lines read after a 'ser1' line and before
\* the first 'Resm' line; the region opens on 'ser1' only, closes on 'Resm'
\* only, and is never opened again once closed.
C6_ProfileRegion ==
    [][/\ (\E k \in DOMAIN obs : Len(obs'[k]) > Len(obs[k])) => (obs_begin /\ ~obs_end)
       /\ (obs_begin' /\ ~obs_begin) => l'.mark = "ser1"
       /\ (obs_end' /\ ~obs_end) => l'.mark = "Resm"
       /\ obs_begin => obs_begin'
       /\ obs_end => obs_end']_vars

C6_Witness ==
    /\ pc = "loop"
    /\ obs_begin /\ obs_end
    /\ l.mark = "none" /\ Len(l.text) = 61 /\ ~Malformed(l.text, crv_on)
    /\ nread = 4 /\ Len(obs["p"]) = 1

\* C7: the cRover layout is decided before any data row is decoded: once a
\* row has been decoded the layout used for the rows does not change.
C7_LayoutDecidedOnce ==
    [][Len(obs["p"]) > 0 => crv_on' = crv_on]_vars

\* C8: a timestamp-bearing line read after dt has been set never changes dt
\* (the first 'terminated' or 'Fix:' line of the transmission wins).
C8_FirstTimestampWins ==
    [][d.dt # None => d'.dt = d.dt]_vars

\* C8, as amended: a 'terminated' line always sets dt to its own date, a
\* 'Fix:' line sets dt only while dt is still unset, no other line changes dt.
C8_TerminatedWins ==
    [][LineRead =>
         d'.dt = IF l'.mark = "terminated" THEN l'.dt
                 ELSE IF l'.mark = "Fix:" /\ d.dt = None THEN l'.dt
                 ELSE d.dt]_vars

C8_Witness ==
    /\ nread = 2
    /\ d.lat # None
    /\ l.mark = "terminated"
    /\ d.dt = l.dt

\* C9: once dt holds the date of a 'terminated' line, a 'Fix:' line sets lat
\* and lon and leaves dt unchanged.
C9_FixKeepsTerminatedDate ==
    [][(LineRead /\ l'.mark = "Fix:" /\ d.dt \in {1, 2})
        => (d'.dt = d.dt /\ d'.lat = l'.lat /\ d'.lon = l'.lon)]_vars

C9_Witness ==
    /\ nread = 2
    /\ l.mark = "Fix:"
    /\ d.dt \in {1, 2}
    /\ d.lat = l.lat /\ d.lon = l.lon

ProcessingCalls ==
    {"process_L1", "process_L2", "export_csv_L0", "export_csv_L1", "export_csv_L2"}

\* C10: a transmission without any valid data row is returned with all obs
\* channels empty, and rt and bash then skip process_L1, process_L2 and the
\* CSV exports without failing.
C10_EmptyProfileSkipped ==
    (driver # "none" /\ Len(obs["tilt_std"]) = 0) =>
        /\ pc = "returned"
        /\ \A k \in DOMAIN obs : obs[k] = <<>>
        /\ \A i \in DOMAIN calls : calls[i] \notin ProcessingCalls
        /\ ret \in {"None", "next"}

-----------------------------------------------------------------------------
(* import_provor_msg: the up-cast file of an NKE Provor float.  A cast row *)
(* is the list of tokens l.split(' ') gives; a token is a record           *)
(*   text : "NA", "num" (a decimal number), "nan" (the text 'nan'),        *)
(*          "NA\n" (the sentinel as last token of its line, terminator     *)
(*          attached) or "bad" (anything float() rejects),                 *)
(*   val  : the number a "num" token spells.                               *)

MaxRows == 3

list_field_id == <<0, 7, 8, 9, 10, 11, 16, 17, 18, 19, 15, 12, 13, 14, 20>>

ProvorChannels == <<"p", "t", "s", "o2_c1", "o2_c2", "o2_t", "fchl", "beta",
                    "fdom", "c", "par", "ed380", "ed412", "ed490", "no3">>

ProvorKeys == {ProvorChannels[i] : i \in 1..Len(ProvorChannels)}

\* The channel is marked active by every token that is not exactly 'NA'.
ActiveAfter_always(a, tok) == TRUE

ActiveAfter(a, tok) == IF tok.text = "NA" THEN a ELSE TRUE

\* The loop over zip(list_field_id, obs.keys()) for one row s, from the
\* i-th pair on.  float(token) is the number a "num" token spells and NaN
\* for 'nan' (the val of both); on any other token it raises ValueError,
\* which leaves the earlier appends in place.
RECURSIVE ProvorFields(_, _, _, _)
ProvorFields(o, a, s, i) ==
    IF i > Len(list_field_id) THEN [obs |-> o, active_obs |-> a, raised |-> FALSE]
    ELSE LET k == ProvorChannels[i]
             tok == s[list_field_id[i] + 1]
         IN IF tok.text = "NA"
            THEN ProvorFields([o EXCEPT ![k] = Append(@, NaN)],
                              [a EXCEPT ![k] = ActiveAfter(@, tok)], s, i + 1)
            ELSE IF tok.text \notin {"num", "nan"}
                 THEN [obs |-> o, active_obs |-> a, raised |-> TRUE]
                 ELSE ProvorFields([o EXCEPT ![k] = Append(@, tok.val)],
                                   [a EXCEPT ![k] = ActiveAfter(@, tok)], s, i + 1)

\* A row of 21 tokens: the fields listed in f hold f's tokens, the others 'NA'.
CastRow(f) ==
    [i \in 1..21 |-> IF (i - 1) \in DOMAIN f THEN f[i - 1]
                     ELSE [text |-> "NA", val |-> NaN]]

CastRows ==
    LET Num(v) == [text |-> "num", val |-> Q(v, 1)]
        Txt(t) == [text |-> t, val |-> NaN]
    IN { CastRow(<<>>),
         CastRow((0 :> Num(1)) @@ (7 :> Num(11)) @@ (8 :> Num(35))),
         CastRow((0 :> Num(2)) @@ (7 :> Num(12)) @@ (8 :> Num(35))),
         CastRow((0 :> Num(3)) @@ (16 :> Num(53)) @@ (15 :> Num(90))),
         CastRow((0 :> Num(4)) @@ (20 :> Num(7))),
         CastRow((0 :> Num(5)) @@ (17 :> Txt("nan"))),
         CastRow((0 :> Num(6)) @@ (20 :> Txt("NA\n"))),
         CastRow((0 :> Num(6)) @@ (9 :> Txt("bad"))) }

InitProvor ==
    /\ InitNavis
    /\ csv = Idle /\ batch = Idle /\ meta = Idle /\ pjm = Idle
    /\ provor = [pc |-> "loop", rows |-> <<>>,
                 obs |-> [k \in ProvorKeys |-> <<>>],
                 active_obs |-> [k \in ProvorKeys |-> FALSE]]
    /\ proc = Idle
    /\ npq = Idle
    /\ reg = Idle

\* for l in f: one cast row.
ProvorRow(s) ==
    /\ provor.pc = "loop"
    /\ Len(provor.rows) < MaxRows
    /\ LET r == ProvorFields(provor.obs, provor.active_obs, s, 1)
       IN provor' = [pc |-> IF r.raised THEN "raised" ELSE "loop",
                     rows |-> Append(provor.rows, s),
                     obs |-> r.obs,
                     active_obs |-> r.active_obs]
    /\ UNCHANGED navis_vars
    /\ UNCHANGED <<proc, npq, reg>>
    /\ UNCHANGED tool_vars

\* End of file: the channels never marked active are removed and d returned.
ProvorReturn ==
    /\ provor.pc = "loop"
    /\ provor' = [provor EXCEPT
                    !.pc = "done",
                    !.obs = [k \in {c \in ProvorKeys : provor.active_obs[c]}
                               |-> provor.obs[k]]]
    /\ UNCHANGED navis_vars
    /\ UNCHANGED <<proc, npq, reg>>
    /\ UNCHANGED tool_vars

NextProvor ==
    \/ \E s \in CastRows : ProvorRow(s)
    \/ ProvorReturn

SpecProvor == InitProvor /\ [][NextProvor]_vars

\* The column of the cast file channel k is read from.
Column(k) == list_field_id[CHOOSE i \in 1..Len(ProvorChannels) : ProvorChannels[i] = k]

-----------------------------------------------------------------------------
(* process_L1 and process_L2 on one profile.  An obs mapping holds, per     *)
(* key, a reference to an array; heap gives the array behind a reference,  *)
(* so that two mappings holding the same reference share the array.  A     *)
(* sensor of the configuration is a record                                 *)
(*   key   : its category, the key of _usr_cfg['sensors'],                 *)
(*   model : sensor_val['model'],                                          *)
(*   keys  : the keys of sensor_val in order, 'model' included.            *)

LIST_SENSOR_SPECIAL_FIELDS == {"model", "sn", "fw", "wavelength", "pathlength"}

Sensor(key, model, keys) == [key |-> key, model |-> model, keys |-> <<"model">> \o keys]

Ref(lvl, key) == [lvl |-> lvl, key |-> key]

\* The calibrations, with the coefficients every configuration holds here.
eco_calibration(counts) ==
    LET coef == [scale_factor |-> 2, dark_count |-> 1]
    IN [i \in 1..Len(counts) |-> coef.scale_factor * (counts[i] - coef.dark_count)]

radiometer_calibration(counts) ==
    LET coef == [a0 |-> 0, a1 |-> 2, im |-> 1]
    IN [i \in 1..Len(counts) |-> coef.a1 * (counts[i] - coef.a0) * coef.im]

\* The oxygen calibrations are kept as terms over the raw samples.
o2_t_calibration(volt) ==
    [i \in 1..Len(volt) |-> [fn |-> "o2_t_calibration", volt |-> volt[i]]]

o2_phase_calibration(volt, o2_t) ==
    [i \in 1..Len(volt) |-> [fn |-> "o2_phase_calibration", volt |-> volt[i], t |-> o2_t[i]]]

\* obs[k] = a for the obs mapping of the profile being built (a: samples or
\* the reference of an array): an existing key keeps its place.
SetKey(st, k, a) ==
    [st EXCEPT !.obs = (k :> a) @@ st.obs,
               !.order = IF k \in DOMAIN st.obs THEN st.order ELSE Append(st.order, k)]

Fatal(st) == [st EXCEPT !.ret = -1]

\* for var_key, var_val in sensor_val.items(): from the i-th key on.
RECURSIVE SensorVars(_, _, _, _, _)
SensorVars(st, m, sv, i, cal) ==
    IF i > Len(sv.keys) THEN st
    ELSE LET var_key == sv.keys[i]
         IN IF var_key \in LIST_SENSOR_SPECIAL_FIELDS
            THEN SensorVars(st, m, sv, i + 1, cal)
            ELSE IF var_key \notin DOMAIN m
                 THEN Fatal(st)
                 ELSE SensorVars(SetKey(st, var_key,
                                        CASE cal = "eco" -> eco_calibration(m[var_key])
                                          [] cal = "radiometer" ->
                                               radiometer_calibration(m[var_key])
                                          [] OTHER -> m[var_key]),
                                 m, sv, i + 1, cal)

\* k in sensor_val.keys()
InKeys_any(sv, k) == TRUE

InKeys(sv, k) == \E i \in 1..Len(sv.keys) : sv.keys[i] = k

\* One sensor of the configuration; m is _msg['obs'] as key -> samples.
\* The 'Oxygen Optode 4330' branch only prints a warning.
SensorL1(st, m, sv) ==
    CASE sv.key = "CTD" ->
           IF sv.model \in {"SBE41CP", "SBE41C"}
           THEN SensorVars(st, m, sv, 1, "copy")
           ELSE Fatal(st)
      [] sv.key = "O2" ->
           IF sv.model = "SBE63"
           THEN IF ~InKeys(sv, "o2_t") \/ ~InKeys(sv, "o2_ph") THEN Fatal(st)
                ELSE IF "o2_t" \notin DOMAIN m \/ "o2_ph" \notin DOMAIN m THEN Fatal(st)
                ELSE LET t == o2_t_calibration(m["o2_t"])
                     IN SetKey(SetKey(st, "o2_t", t),
                               "o2_c", o2_phase_calibration(m["o2_ph"], t))
           ELSE IF sv.model = "Oxygen Optode 4330" THEN st
           ELSE Fatal(st)
      [] sv.key = "ECO" ->
           IF sv.model \in {"MCOM", "FLBBCD"}
           THEN SensorVars(st, m, sv, 1, "eco")
           ELSE Fatal(st)
      [] sv.key = "Radiometer" ->
           IF sv.model = "Satlantic PAR"
           THEN IF ~InKeys(sv, "par") \/ ~InKeys(sv, "tilt") \/ ~InKeys(sv, "tilt_std")
                THEN Fatal(st)
                ELSE IF "par" \notin DOMAIN m \/ "tilt" \notin DOMAIN m
                        \/ "tilt_std" \notin DOMAIN m
                THEN Fatal(st)
                ELSE SetKey(SetKey(SetKey(st, "par", radiometer_calibration(m["par"])),
                                   "tilt", m["tilt"]),
                            "tilt_std", m["tilt_std"])
           ELSE IF sv.model = "OCR504" THEN SensorVars(st, m, sv, 1, "radiometer")
           ELSE Fatal(st)
      [] sv.key = "BeamC" ->
           IF sv.model = "CRV2K"
           THEN SensorVars(st, m, sv, 1, "copy")
           ELSE Fatal(st)
      [] OTHER -> Fatal(st)

\* for sensor_key, sensor_val in _usr_cfg['sensors'].items(): the first
\* fatal error returns -1.
RECURSIVE SensorsL1(_, _, _, _)
SensorsL1(st, m, sensors, i) ==
    IF i > Len(sensors) \/ st.ret = -1 THEN st
    ELSE SensorsL1(SensorL1(st, m, sensors[i]), m, sensors, i + 1)

\* process_L1(_msg, _usr_cfg): ret is -1 or 0 (a profile, whose obs mapping
\* is obs with its keys in the order of order).
process_L1(m, sensors) ==
    SensorsL1([ret |-> 0, obs |-> <<>>, order |-> <<>>], m, sensors, 1)

\* Level-0 obs mappings as import_navis_msg / import_provor_msg return them
\* (key -> samples), with pressures p and raw PAR counts par.
NavisObs(p, par) ==
    [p |-> p, t |-> <<12, 11, 10, 9, 8>>, s |-> <<35, 35, 35, 36, 36>>,
     o2_ph |-> <<30, 30, 31, 31, 32>>, o2_t |-> <<1, 1, 1, 1, 1>>,
     fchl |-> <<2, 2, 6, 3, 3>>, beta |-> <<4, 4, 4, 3, 3>>, fdom |-> <<7, 7, 7, 7, 7>>,
     par |-> par, tilt |-> <<1, 1, 2, 1, 1>>, tilt_std |-> <<0, 0, 0, 0, 0>>]

Profiles ==
    LET full == NavisObs(<<5, 10, 15, 20, 25>>, <<50, 45, 10, 5, 1>>)
        Restrict(f, S) == [k \in S |-> f[k]]
    IN { full,
         NavisObs(<<0, 5, 10, 15, 20>>, <<50, 10, 5, 2, 1>>),
         NavisObs(<<5, 10, 15, 20, 25>>, <<10, 8, 5, 2, 1>>),
         full @@ [k \in {"c_count", "c_su"} |-> <<9, 9, 8, 8, 8>>],
         Restrict(full, {"p", "t", "s"}),
         Restrict(full, {"p", "t", "s", "fchl", "beta", "fdom", "par", "tilt", "tilt_std"}),
         Restrict(full, {"p", "t", "s", "fchl", "par"})
             @@ [k \in {"ed380", "ed412", "ed490"} |-> <<3, 3, 2, 1, 1>>] }

\* The sensors of _usr_cfg, in the order of the configuration file.
Configs ==
    LET Ctd == Sensor("CTD", "SBE41CP", <<"sn", "p", "t", "s">>)
        Par == Sensor("Radiometer", "Satlantic PAR", <<"par", "tilt", "tilt_std">>)
        Eco == Sensor("ECO", "MCOM", <<"fchl", "beta", "fdom">>)
    IN { <<Ctd, Sensor("O2", "SBE63", <<"o2_t", "o2_ph">>), Eco, Par>>,
         <<Sensor("CTD", "SBE41C", <<"p", "s">>), Par>>,
         <<Sensor("CTD", "SBE41C", <<"p", "s">>), Par,
           Sensor("BeamC", "CRV2K", <<"pathlength", "c_count", "c_su">>)>>,
         <<Ctd, Par>>,
         <<Ctd>>,
         <<Ctd, Sensor("ECO", "FLBBCD", <<"wavelength", "fchl">>), Par>>,
         <<Sensor("CTD", "SBE37", <<"p", "t", "s">>), Par>>,
         <<Ctd, Sensor("O2", "Oxygen Optode 4330", <<"o2_c1", "o2_c2">>), Par>>,
         <<Ctd, Sensor("O2", "Optode 3830", <<"o2_c1">>), Par>>,
         <<Ctd, Sensor("O2", "SBE63", <<"o2_t">>), Par>>,
         <<Ctd, Sensor("ECO", "FLBB", <<"fchl", "beta">>), Par>>,
         <<Ctd, Sensor("Radiometer", "OCR504", <<"ed380", "ed412", "ed490", "par">>)>>,
         <<Ctd, Sensor("Radiometer", "OCR507", <<"par">>)>>,
         <<Ctd, Sensor("Radiometer", "Satlantic PAR", <<"par", "tilt">>)>>,
         <<Ctd, Par, Sensor("BeamC", "CRV2K", <<"pathlength", "c_count", "c_su">>)>>,
         <<Ctd, Par, Sensor("BeamC", "CRV5", <<"c_count">>)>>,
         <<Ctd, Par, Sensor("SUNA", "SUNA V2", <<"no3">>)>> }

\* The samples behind the references of an obs mapping.
Deref(heap, o) == [k \in DOMAIN o |-> heap[o[k]]]

InitProc ==
    /\ InitNavis
    /\ csv = Idle /\ batch = Idle /\ meta = Idle /\ pjm = Idle
    /\ provor = Idle
    /\ \E m \in Profiles, sensors \in Configs :
          proc = [pc |-> "msg", sensors |-> sensors,
                  msg |-> [k \in DOMAIN m |-> Ref("msg", k)],
                  heap |-> [r \in {Ref("msg", k) : k \in DOMAIN m} |-> m[r.key]],
                  l1 |-> <<>>, l1_order |-> <<>>, l2 |-> <<>>, l2_order |-> <<>>,
                  msg_in |-> m, l1_in |-> <<>>, written |-> "none", mld |-> FALSE,
                  first |-> [ret |-> 0 - 2, obs |-> <<>>, order |-> <<>>],
                  again |-> [ret |-> 0 - 2, obs |-> <<>>, order |-> <<>>],
                  frame |-> [exc |-> "none", start_npq |-> 0,
                             npq_applied |-> FALSE, fchl_npqc |-> <<>>]]
    /\ npq = Idle
    /\ reg = Idle

\* process_L1(msg, usr_cfg): every array of the result is a new np.array.
\* first keeps what the call returned (-1, or the keys and their samples).
ProcessL1_shared ==
    /\ proc.pc = "msg"
    /\ LET r == process_L1(Deref(proc.heap, proc.msg), proc.sensors)
           R(k) == IF k \in {"p", "t", "s"} THEN proc.msg[k] ELSE Ref("l1", k)
       IN IF r.ret = -1
          THEN proc' = [proc EXCEPT !.pc = "l1_failed", !.first = r]
          ELSE proc' = [proc EXCEPT
                          !.pc = "l1",
                          !.first = r,
                          !.l1 = [k \in DOMAIN r.obs |-> R(k)],
                          !.l1_order = r.order,
                          !.heap = [x \in {Ref("l1", k) : k \in DOMAIN r.obs}
                                      |-> r.obs[x.key]] @@ proc.heap]
    /\ UNCHANGED navis_vars
    /\ UNCHANGED <<provor, npq, reg>>
    /\ UNCHANGED tool_vars

ProcessL1 ==
    /\ proc.pc = "msg"
    /\ LET r == process_L1(Deref(proc.heap, proc.msg), proc.sensors)
       IN IF r.ret = -1
          THEN proc' = [proc EXCEPT !.pc = "l1_failed", !.first = r]
          ELSE proc' = [proc EXCEPT
                          !.pc = "l1",
                          !.first = r,
                          !.l1 = [k \in DOMAIN r.obs |-> Ref("l1", k)],
                          !.l1_order = r.order,
                          !.heap = [x \in {Ref("l1", k) : k \in DOMAIN r.obs}
                                      |-> r.obs[x.key]] @@ proc.heap]
    /\ UNCHANGED navis_vars
    /\ UNCHANGED <<provor, npq, reg>>
    /\ UNCHANGED tool_vars

\* A second call process_L1(msg, usr_cfg) with the same two arguments, at
\* any later point; its result is kept in again.
ProcessL1Again ==
    /\ proc.pc \notin {"idle", "msg"}
    /\ proc.again.ret = 0 - 2
    /\ proc' = [proc EXCEPT
                   !.again = process_L1(Deref(proc.heap, proc.msg), proc.sensors)]
    /\ UNCHANGED navis_vars
    /\ UNCHANGED <<provor, npq, reg>>
    /\ UNCHANGED tool_vars

\* The sample a later step of the pipeline stores in place of x in the
\* array of key k: another number, or another term for the oxygen channels.
Changed(k, x) ==
    IF k \in {"o2_t", "o2_c"} THEN [fn |-> "changed", was |-> x] ELSE x + 1

\* A later change to an entry of the Level-1 profile, in place:
\* l1['obs'][k][0] = another value.
WriteL1(k) ==
    /\ proc.pc = "l1"
    /\ proc.written = "none"
    /\ k \in DOMAIN proc.l1
    /\ proc' = [proc EXCEPT !.written = "l1",
                            !.heap[proc.l1[k]][1] = Changed(k, @)]
    /\ UNCHANGED navis_vars
    /\ UNCHANGED <<provor, npq, reg>>
    /\ UNCHANGED tool_vars

-----------------------------------------------------------------------------
(* Properties of process_L1 *)

\* process_L1 has returned a Level-1 profile.
L1Returned == proc.pc \notin {"idle", "msg", "l1_failed"}

\* The models process_L1 calibrates, per category.
SupportedModels ==
    [CTD |-> {"SBE41CP", "SBE41C"}, O2 |-> {"SBE63"}, ECO |-> {"MCOM", "FLBBCD"},
     Radiometer |-> {"Satlantic PAR", "OCR504"}, BeamC |-> {"CRV2K"}]

Supported(sv) == sv.key \in DOMAIN SupportedModels /\ sv.model \in SupportedModels[sv.key]

\* C12: process_L1 returns a Level-1 profile only for a configuration whose
\* sensors all have a known category and a supported model; any other
\* configuration ends in the fatal outcome -1.
C12_UnsupportedModelFatal ==
    L1Returned => \A i \in 1..Len(proc.sensors) : Supported(proc.sensors[i])

\* The entries the configuration of a sensor must hold besides its model.
RequiredCfg(sv) ==
    CASE sv.key = "O2" /\ sv.model = "SBE63" -> {"o2_t", "o2_ph"}
      [] sv.key = "Radiometer" /\ sv.model = "Satlantic PAR" -> {"par", "tilt", "tilt_std"}
      [] OTHER -> {}

\* The channels a supported sensor needs in the profile: the fixed ones of
\* its model, or every entry of its configuration that is not a special field.
RequiredObs(sv) ==
    IF ~Supported(sv) THEN {}
    ELSE IF RequiredCfg(sv) # {} THEN RequiredCfg(sv)
    ELSE {sv.keys[i] : i \in 1..Len(sv.keys)} \ LIST_SENSOR_SPECIAL_FIELDS

\* C13: process_L1 returns a Level-1 profile only if every sensor holds the
\* coefficient entries its model requires and every channel a sensor
\* requires is in the profile's obs mapping; otherwise the outcome is -1.
C13_MissingFieldFatal ==
    L1Returned =>
        \A i \in 1..Len(proc.sensors) :
            /\ \A k \in RequiredCfg(proc.sensors[i]) :
                  \E j \in 1..Len(proc.sensors[i].keys) : proc.sensors[i].keys[j] = k
            /\ RequiredObs(proc.sensors[i]) \subseteq DOMAIN proc.msg

\* The outcome -1 for a configuration of supported models only, whose
\* radiometer needs channels the profile does not hold.
C13_Witness ==
    /\ proc.pc = "l1_failed"
    /\ \A i \in 1..Len(proc.sensors) : Supported(proc.sensors[i])
    /\ \E i \in 1..Len(proc.sensors) :
          /\ proc.sensors[i].model = "OCR504"
          /\ ~(RequiredObs(proc.sensors[i]) \subseteq DOMAIN proc.msg)

-----------------------------------------------------------------------------
(* toolbox: is_npq, npq_correction, estimate_mld.  Pressures, depths and   *)
(* PAR are integers; fluorescence samples are rationals Q(num, den) in      *)
(* lowest terms with den > 0, NaN the missing sample.                      *)

Abs(x) == IF x < 0 THEN 0 - x ELSE x

Max(a, b) == IF a > b THEN a ELSE b

RECURSIVE Gcd(_, _)
Gcd(a, b) == IF b = 0 THEN a ELSE Gcd(b, a % b)

\* n / dn in lowest terms, dn # 0.
Rat(n, dn) ==
    LET g == Gcd(Abs(n), Abs(dn))
        sg == IF dn < 0 THEN 0 - 1 ELSE 1
    IN Q(sg * (n \div g), sg * (dn \div g))

ToQ(q) == [i \in 1..Len(q) |-> Q(q[i], 1)]

RLess(a, b) == a.num * b.den < b.num * a.den

RECURSIVE Sum(_)
Sum(q) == IF q = <<>> THEN 0 ELSE Head(q) + Sum(Tail(q))

Ones(n) == [i \in 1..n |-> 1]

SlopeSign_origin(w, u, v, need_intercept) ==
    LET s3 == Sum([i \in 1..Len(w) |-> w[i] * u[i] * v[i]])
    IN IF s3 > 0 THEN 1 ELSE IF s3 < 0 THEN 0 - 1 ELSE 0

\* Sign of the least-squares slope of v on u with weights w, as the Type-I
\* fits of regress2 give it: with a constant term the sign of the weighted
\* covariance, without it of the weighted sum of products.
SlopeSign(w, u, v, need_intercept) ==
    LET Sgn(x) == IF x > 0 THEN 1 ELSE IF x < 0 THEN 0 - 1 ELSE 0
        Dot3(a, b, c) == Sum([i \in 1..Len(a) |-> a[i] * b[i] * c[i]])
        one == Ones(Len(w))
    IN IF need_intercept
       THEN Sgn(Sum(w) * Dot3(w, u, v) - Dot3(w, u, one) * Dot3(w, v, one))
       ELSE Sgn(Dot3(w, u, v))

\* np.nanmedian: of the samples that are not NaN, in order, the middle one
\* or the mean of the two middle ones.
nanmedian(q) ==
    LET idx == {i \in 1..Len(q) : q[i] # NaN}
        n == Cardinality(idx)
        \* the sample of rank r (1-based), ties broken by position
        Before(i, j) == RLess(q[i], q[j]) \/ (~RLess(q[j], q[i]) /\ i < j)
        Ranked(r) == q[CHOOSE i \in idx : Cardinality({j \in idx : Before(j, i)}) = r - 1]
    IN IF n = 0 THEN NaN
       ELSE IF n % 2 = 1 THEN Ranked((n + 1) \div 2)
       ELSE LET a == Ranked(n \div 2)
                b == Ranked(n \div 2 + 1)
            IN Rat(a.num * b.den + b.num * a.den, 2 * a.den * b.den)

\* The default of _threshold in is_npq.
PAR_THRESHOLD == 80

\* is_npq(_p, _par): the largest pressure among the samples with par above
\* the threshold, 0 when there is none.
is_npq(p, par, threshold) ==
    LET p_npq == {i \in 1..Min(Len(p), Len(par)) : par[i] > threshold}
    IN IF p_npq # {}
       THEN p[CHOOSE i \in p_npq : \A j \in p_npq : p[j] <= p[i]]
       ELSE 0

\* np.argsort(_p): a permutation that sorts p; the order it gives to equal
\* pressures is not fixed.
Argsorts(p) ==
    {x \in Permutations(1..Len(p)) :
        \A i \in 1..(Len(p) - 1) : p[x[i]] <= p[x[i + 1]]}

\* np.argsort(sorted_index): the inverse permutation.
Inverse_none(x) == x

Inverse(x) == [i \in DOMAIN x |-> CHOOSE j \in DOMAIN x : x[j] = i]

\* q[x]: fancy indexing, a new array.
Take(q, x) == [i \in DOMAIN x |-> q[x[i]]]

\* index_start_correct (1-based): the first sorted sample nearest to depth.
IndexStart(p, depth) ==
    LET min_delta == CHOOSE x \in {Abs(p[i] - depth) : i \in 1..Len(p)} :
                         \A i \in 1..Len(p) : x <= Abs(p[i] - depth)
    IN CHOOSE k \in 1..Len(p) :
          /\ Abs(p[k] - depth) = min_delta
          /\ \A j \in 1..(k - 1) : Abs(p[j] - depth) # min_delta

\* fchl[0:k] = v (k samples from the surface).
Fill(fchl, k, v) == [i \in 1..Len(fchl) |-> IF i <= k THEN v ELSE fchl[i]]

\* interp1d(p, fchl)(depth) for sorted p: it needs two samples and raises
\* outside the range of p; the value is linear between the samples that
\* bracket depth (searchsorted on the left, clipped to 1..len-1), NaN when
\* the two have the same pressure.
Interp(p, fchl, depth) ==
    IF Len(p) < 2 \/ depth < p[1] \/ depth > p[Len(p)] THEN [raised |-> TRUE, val |-> NaN]
    ELSE LET n == Cardinality({i \in 1..Len(p) : p[i] < depth})
             hi == Max(2, Min(n + 1, Len(p)))
             lo == hi - 1
         IN [raised |-> FALSE,
             val |-> IF p[hi] = p[lo] \/ fchl[lo] = NaN \/ fchl[hi] = NaN THEN NaN
                     ELSE Rat(fchl[lo].num * fchl[hi].den * (p[hi] - p[lo])
                                + (fchl[hi].num * fchl[lo].den - fchl[lo].num * fchl[hi].den)
                                  * (depth - p[lo]),
                              fchl[lo].den * fchl[hi].den * (p[hi] - p[lo]))]

\* The defaults of _n_avg and _threshold_fchl in npq_correction.
N_AVG == <<1, 2>>

THRESHOLD_FCHL == Q(3, 1000)

\* npq_correction(_p, _fchl, _depth_start_correct, _method, _n_avg, _bbp)
\* with sorted_index the permutation argsort gave and fit telling whether
\* regress2 returned a relation (Sackmann only).  The result is in the
\* order of the input; raised tells that an exception ended the call.
\* Xing2 is applied only when the window is shorter than the profile.
npq_correction(p, fchl, depth, method, n_avg, bbp, sorted_index, fit) ==
    LET ps == Take(p, sorted_index)
        f == Take(fchl, sorted_index)
        k == IndexStart(ps, depth)
        k0 == k - 1
        window == IF k0 - n_avg[1] < 0
                  THEN SubSeq(f, 1, Min(k0 + n_avg[2] + 1, Len(f)))
                  ELSE IF k0 + n_avg[2] > Len(f)
                  THEN SubSeq(f, k0 - n_avg[1] + 1, Len(f))
                  ELSE SubSeq(f, k0 - n_avg[1] + 1, Min(k0 + n_avg[2] + 1, Len(f)))
        Back(q) == [raised |-> FALSE, fchl |-> Take(q, Inverse(sorted_index))]
        Raise == [raised |-> TRUE, fchl |-> <<>>]
    IN IF Len(p) = 0 THEN Raise
       ELSE CASE method = "Xing" ->
                   IF Interp(ps, f, depth).raised THEN Raise
                   ELSE Back(Fill(f, k, Interp(ps, f, depth).val))
              [] method = "Xing2" ->
                   IF n_avg[1] + n_avg[2] + 1 < Len(f)
                   THEN Back(Fill(f, k, nanmedian(window)))
                   ELSE Back(f)
              [] method = "Sackmann" ->
                   IF bbp = <<>> \/ ~fit THEN Raise
                   ELSE LET b == Take(bbp, sorted_index)
                        IN Back([i \in 1..Len(f) |->
                                   IF i <= k THEN [fn |-> "sackmann", bbp |-> b[i]]
                                   ELSE f[i]])
              [] OTHER -> Back(f)

\* Whether regress2 can return the outcome fit on the samples Sackmann
\* selects: sel holds the 0-based indices of the samples over the threshold
\* and the second selection is made on the list sel itself, its positions
\* being used as sample indices.  With fewer than two distinct points the
\* outcome is not determined here.
SackmannFit(p, fchl, depth, bbp, sorted_index, fit) ==
    LET ps == Take(p, sorted_index)
        f == Take(fchl, sorted_index)
        b == Take(bbp, sorted_index)
        k0 == IndexStart(ps, depth) - 1
        sel == SelectSeq([i \in 1..Len(f) |-> i - 1],
                         LAMBDA i : RLess(THRESHOLD_FCHL, f[i + 1]))
        sel2 == SelectSeq([j \in 1..Len(sel) |-> j - 1],
                          LAMBDA j : sel[j + 1] >= k0 + 1)
        bsel == [j \in 1..Len(sel2) |-> b[sel2[j] + 1]]
        fsel == [j \in 1..Len(sel2) |-> f[sel2[j] + 1].num]
    IN \/ Len(sel2) < 2
       \/ \A j \in 1..Len(sel2) : bsel[j] = bsel[1]
       \/ \A j \in 1..Len(sel2) : fsel[j] = fsel[1]
       \/ fit = (SlopeSign(Ones(Len(sel2)), bsel, fsel, TRUE) # 0)

\* estimate_mld(_sigma, _criterion): the first index (0-based) minimising
\* | |sigma[i] - sigma[0]| - criterion |.  The test _sigma != [] compares an
\* array with an empty list: it is true for two samples or more and, by
\* broadcasting to an empty array, false below, where -1 is returned.  sigma
\* and the criterion are in units of 0.001 kg m^-3.
estimate_mld(sigma, criterion) ==
    IF Len(sigma) <= 1 THEN 0 - 1
    ELSE LET dev(i) == Abs(Abs(sigma[i] - sigma[1]) - criterion)
             k == CHOOSE i \in 1..Len(sigma) :
                     /\ \A j \in 1..Len(sigma) : dev(i) <= dev(j)
                     /\ \A j \in 1..(i - 1) : dev(j) # dev(i)
         IN k - 1

-----------------------------------------------------------------------------
(* process_L2 *)

\* The functions process.py can call: its own and those of toolbox and
\* dashboard (from toolbox import *, from dashboard import *).
Defined ==
    {"is_npq", "npq_correction", "estimate_mld", "estimate_bbp", "estimate_poc",
     "estimate_cphyto", "eco_calibration", "radiometer_calibration",
     "o2_t_calibration", "o2_phase_calibration", "regress2", "indices"}

\* The positional parameters of estimate_mld and the positional arguments
\* of its two calls in process_L2.
ESTIMATE_MLD_PARAMS == 2

ESTIMATE_MLD_ARGS == 3

\* The channels process_L2 cannot do without.
MandatoryL2_ps == {"p", "s"}

MandatoryL2 == {"p", "s", "par"}

\* _usr_cfg['sensors'][key], or none.
SensorOf(sensors, key) == {sensors[i] : i \in {j \in 1..Len(sensors) : sensors[j].key = key}}

\* A derived product kept as a term over its source samples.
Term(fn, a) == [i \in 1..Len(a) |-> [fn |-> fn, x |-> a[i]]]

\* An exception ends the call.
Raised_ignored(st, exc) == st

Raised(st, exc) == [st EXCEPT !.out = "raised", !.exc = exc]

\* l2['obs'][k] = a newly computed array a.
SetNew(st, k, a) ==
    [SetKey(st, k, Ref("l2", k)) EXCEPT !.new = (k :> a) @@ st.new]

\* One key of _l1['obs'] in the loop of process_L2; l1 maps the keys to
\* references, a to the samples behind them.
KeyL2(st, l1, a, sensors, key, sorted_index) ==
    CASE key = "fchl" ->
           LET start_npq == is_npq(a["p"], a["par"], PAR_THRESHOLD)
               \* if start_npq:
               applies == start_npq # 0
               c == IF applies
                    THEN npq_correction(a["p"], ToQ(a["fchl"]), start_npq, "Xing2",
                                        N_AVG, <<>>, sorted_index, TRUE)
                    ELSE [raised |-> FALSE, fchl |-> ToQ(a["fchl"])]
               fr == [st EXCEPT !.start_npq = start_npq, !.npq_applied = applies,
                                !.fchl_npqc = c.fchl]
           IN IF "slope_correction" \notin Defined
              THEN Raised(fr, "NameError")
              ELSE SetNew(SetKey(fr, "fchl", l1["fchl"]),
                          "chla_adj", Term("slope_correction", c.fchl))
      [] key = "beta" ->
           LET eco == SensorOf(sensors, "ECO")
           IN IF eco = {} THEN [st EXCEPT !.out = "-1"]
              ELSE IF \A sv \in eco : ~InKeys(sv, "beta") THEN [st EXCEPT !.out = "-1"]
              ELSE IF \A sv \in eco : sv.model \notin {"MCOM", "FLBB", "FLBBCD"}
              THEN [st EXCEPT !.out = "-1"]
              ELSE IF "t" \notin DOMAIN a THEN Raised(st, "KeyError")
              ELSE SetNew(st, "bbp",
                          Term("estimate_bbp",
                               [i \in 1..Len(a["beta"]) |-> <<a["beta"][i], a["t"][i], a["s"][i]>>]))
      [] key = "c_count" -> st
      [] OTHER -> SetKey(st, key, l1[key])

RECURSIVE KeysL2(_, _, _, _, _, _, _)
KeysL2(st, l1, a, sensors, order, i, sorted_index) ==
    IF i > Len(order) \/ st.out # "l2" THEN st
    ELSE KeysL2(KeyL2(st, l1, a, sensors, order[i], sorted_index),
                l1, a, sensors, order, i + 1, sorted_index)

\* Compute new products: sigma, the two mixed layer depths, poc, cphyto.
ProductsL2(st, a) ==
    LET s1 == IF "t" \in DOMAIN st.obs /\ "s" \in DOMAIN st.obs
              THEN SetNew(st, "sigma",
                          Term("sigma0",
                               [i \in 1..Len(a["s"]) |-> <<a["s"][i], a["t"][i], a["p"][i]>>]))
              ELSE st
        s2 == IF "sigma" \in DOMAIN s1.obs /\ Len(s1.new["sigma"]) > 1
              THEN IF ESTIMATE_MLD_ARGS > ESTIMATE_MLD_PARAMS
                   THEN Raised(s1, "TypeError")
                   ELSE [s1 EXCEPT !.mld = TRUE]
              ELSE s1
    IN IF s2.out # "l2" THEN s2
       ELSE IF "bbp" \in DOMAIN s2.obs
       THEN SetNew(SetNew(s2, "poc", Term("estimate_poc", s2.new["bbp"])),
                   "cphyto", Term("estimate_cphyto", s2.new["bbp"]))
       ELSE s2

\* process_L2(_l1, _usr_cfg).  out is "l2" (a Level-2 profile), "-1" or
\* "raised"; start_npq, npq_applied and fchl_npqc are the locals of the
\* fchl branch, kept for inspection.
process_L2(l1, order, a, sensors, sorted_index) ==
    LET st0 == [out |-> "l2", exc |-> "none", obs |-> <<>>, order |-> <<>>,
                new |-> <<>>, mld |-> FALSE,
                start_npq |-> 0, npq_applied |-> FALSE, fchl_npqc |-> <<>>]
    IN IF ~(MandatoryL2 \subseteq DOMAIN l1) THEN [st0 EXCEPT !.out = "-1"]
       ELSE LET st == KeysL2(st0, l1, a, sensors, order, 1, sorted_index)
            IN IF st.out # "l2" THEN st ELSE ProductsL2(st, a)

\* msg_l2 = process_L2(msg_l1, usr_cfg)
ProcessL2 ==
    /\ proc.pc = "l1"
    /\ LET a == Deref(proc.heap, proc.l1)
       IN \E sorted_index \in (IF "p" \in DOMAIN a THEN Argsorts(a["p"]) ELSE {<<>>}) :
             LET r == process_L2(proc.l1, proc.l1_order, a, proc.sensors, sorted_index)
             IN proc' = [proc EXCEPT
                           !.pc = CASE r.out = "l2" -> "l2"
                                    [] r.out = "-1" -> "l2_failed"
                                    [] OTHER -> "l2_raised",
                           !.l2 = IF r.out = "l2" THEN r.obs ELSE <<>>,
                           !.l2_order = IF r.out = "l2" THEN r.order ELSE <<>>,
                           !.heap = IF r.out = "l2"
                                    THEN [x \in {Ref("l2", k) : k \in DOMAIN r.new}
                                            |-> r.new[x.key]] @@ proc.heap
                                    ELSE proc.heap,
                           !.l1_in = a,
                           !.mld = r.mld,
                           !.frame = [exc |-> r.exc, start_npq |-> r.start_npq,
                                      npq_applied |-> r.npq_applied,
                                      fchl_npqc |-> r.fchl_npqc]]
    /\ UNCHANGED navis_vars
    /\ UNCHANGED <<provor, npq, reg>>
    /\ UNCHANGED tool_vars

\* A later change to an entry of the Level-2 profile, in place.
WriteL2(k) ==
    /\ proc.pc = "l2"
    /\ proc.written # "l2"
    /\ k \in DOMAIN proc.l2
    /\ proc' = [proc EXCEPT !.written = "l2",
                            !.heap[proc.l2[k]][1] = Changed(k, @)]
    /\ UNCHANGED navis_vars
    /\ UNCHANGED <<provor, npq, reg>>
    /\ UNCHANGED tool_vars

NextProc ==
    \/ ProcessL1
    \/ \E k \in DOMAIN proc.l1 : WriteL1(k)
    \/ ProcessL2
    \/ \E k \in DOMAIN proc.l2 : WriteL2(k)
    \/ ProcessL1Again

SpecProc == InitProc /\ [][NextProc]_vars

-----------------------------------------------------------------------------
(* Properties of process_L2 *)

\* process_L2 has been called on the Level-1 profile.
L2Called == proc.pc \in {"l2", "l2_failed", "l2_raised"}

\* C14: when p, s or par is missing from the obs mapping of the Level-1
\* profile, process_L2 ends with -1 and no Level-2 record exists.
C14_MandatoryChannels ==
    (L2Called /\ ~({"p", "s", "par"} \subseteq DOMAIN proc.l1)) =>
        (proc.pc = "l2_failed" /\ proc.l2 = <<>>)

\* process_L2 called on a profile with p and s but without par.
C14_Witness ==
    /\ proc.pc = "l2_failed"
    /\ {"p", "s"} \subseteq DOMAIN proc.l1
    /\ "par" \notin DOMAIN proc.l1

\* C15: the profile given to process_L1 and the one given to process_L2
\* keep their keys and their samples, also when an entry of the returned
\* profile is changed afterwards.
C15_InputUnchanged ==
    /\ L1Returned =>
          /\ DOMAIN proc.msg = DOMAIN proc.msg_in
          /\ Deref(proc.heap, proc.msg) = proc.msg_in
    /\ L2Called =>
          /\ DOMAIN proc.l1 = DOMAIN proc.l1_in
          /\ Deref(proc.heap, proc.l1) = proc.l1_in

\* C16: in the fchl branch of process_L2 the onset depth is the largest
\* pressure among the samples with par above 80, and the correction is
\* applied exactly when there is such a sample.
C16_NpqDecision ==
    (proc.pc = "l2_raised" /\ proc.frame.exc = "NameError") =>
        LET p == proc.l1_in["p"]
            par == proc.l1_in["par"]
            bright == {i \in 1..Len(p) : par[i] > 80}
        IN /\ bright # {} =>
                /\ \E i \in bright : proc.frame.start_npq = p[i]
                /\ \A i \in bright : p[i] <= proc.frame.start_npq
           /\ proc.frame.npq_applied <=> (bright # {})

\* C19: for a Level-1 profile with t and s, whose density anomaly is
\* therefore computed, process_L2 returns a Level-2 profile holding the
\* 0.03 and the 0.005 mixed layer estimates (index and pressure at that index).
C19_MldEstimates ==
    (/\ L2Called
     /\ {"p", "s", "par", "t"} \subseteq DOMAIN proc.l1
     /\ proc.frame.exc \notin {"NameError", "KeyError"}
     /\ proc.pc # "l2_failed") =>
        (proc.pc = "l2" /\ proc.mld)

-----------------------------------------------------------------------------
(* One call of npq_correction on its own *)

\* Profiles as (pressure, fluorescence, backscatter), in the order of the
\* caller: sorted, reversed, shuffled, with two samples at one pressure.
NpqProfiles ==
    { [p |-> <<0, 1, 2, 3, 4, 5>>, fchl |-> <<1, 1, 5, 2, 2, 2>>, bbp |-> <<3, 3, 4, 2, 1, 2>>],
      [p |-> <<5, 4, 3, 2, 1, 0>>, fchl |-> <<2, 3, 4, 5, 1, 1>>, bbp |-> <<1, 2, 3, 4, 5, 6>>],
      [p |-> <<3, 0, 10, 1, 2>>, fchl |-> <<4, 1, 3, 2, 6>>, bbp |-> <<2, 1, 1, 3, 3>>],
      [p |-> <<1, 5, 0, 5>>, fchl |-> <<2, 7, 1, 3>>, bbp |-> <<1, 2, 1, 2>>],
      [p |-> <<0, 1, 2>>, fchl |-> <<1, 5, 2>>, bbp |-> <<1, 1, 1>>],
      [p |-> <<10, 0>>, fchl |-> <<3, 1>>, bbp |-> <<>>] }

InitNpq ==
    /\ InitNavis
    /\ csv = Idle /\ batch = Idle /\ meta = Idle /\ pjm = Idle
    /\ provor = Idle
    /\ proc = Idle
    /\ \E x \in NpqProfiles, depth \in {0, 1, 3, 6},
          method \in {"Xing", "Xing2", "Sackmann"},
          n_avg \in {<<1, 1>>, <<1, 2>>, <<0, 2>>} :
          npq = [pc |-> "call", p |-> x.p, fchl |-> ToQ(x.fchl), bbp |-> x.bbp,
                 depth |-> depth, method |-> method, n_avg |-> n_avg,
                 fchl_in |-> ToQ(x.fchl), sorted_index |-> <<>>, out |-> <<>>]
    /\ reg = Idle

\* fchl_out = npq_correction(p, fchl, depth, _method=method, _n_avg=n_avg,
\* _bbp=bbp): the function works on fchl[sorted_index], a copy, so the
\* caller's array stays as it is.
NpqCall ==
    /\ npq.pc = "call"
    /\ \E sorted_index \in Argsorts(npq.p), fit \in BOOLEAN :
          /\ IF npq.method = "Sackmann" /\ npq.bbp # <<>>
             THEN SackmannFit(npq.p, npq.fchl, npq.depth, npq.bbp, sorted_index, fit)
             ELSE fit
          /\ LET r == npq_correction(npq.p, npq.fchl, npq.depth, npq.method,
                                     npq.n_avg, npq.bbp, sorted_index, fit)
             IN npq' = [npq EXCEPT !.pc = IF r.raised THEN "raised" ELSE "done",
                                   !.sorted_index = sorted_index,
                                   !.out = r.fchl]
    /\ UNCHANGED navis_vars
    /\ UNCHANGED <<provor, proc, reg>>
    /\ UNCHANGED tool_vars

NextNpq == NpqCall

SpecNpq == InitNpq /\ [][NextNpq]_vars

\* The place (1-based) of input sample i in depth order, and the onset
\* index k: the place of the first sample nearest to the onset depth.
Place(i) == CHOOSE j \in 1..Len(npq.p) : npq.sorted_index[j] = i

OnsetIndex == IndexStart(Take(npq.p, npq.sorted_index), npq.depth)

\* C17: Xing2 with window [n0, n1] gives every sample at or above the onset
\* index the median of the samples at sorted places max(0, k-n0) ..
\* min(len-1, k+n1) (0-based) and leaves the deeper ones unchanged.
C17_Xing2Median ==
    (npq.pc = "done" /\ npq.method = "Xing2") =>
        LET f == Take(npq.fchl_in, npq.sorted_index)
            k == OnsetIndex
            m == nanmedian(SubSeq(f, Max(1, k - npq.n_avg[1]),
                                     Min(k + npq.n_avg[2], Len(f))))
        IN \A i \in 1..Len(npq.p) :
              npq.out[i] = IF Place(i) <= k THEN m ELSE npq.fchl_in[i]

-----------------------------------------------------------------------------
(* toolbox.regress2.  Samples and weights are integers; of the two Type-I   *)
(* slopes only the sign matters for the outcome, and it is computed         *)
(* exactly.  x and y are not constant.  The intercept returned is the       *)
(* rational it is assigned or computed as, or a term when a square root     *)
(* or a median enters it.                                                   *)

RECURSIVE Prod(_)
Prod(q) == IF q = <<>> THEN 1 ELSE Head(q) * Prod(Tail(q))

\* 1. / _weight, scaled by the product of the weights.
Recip(wt) == [i \in 1..Len(wt) |-> Prod(wt) \div wt[i]]

\* The check 'np.sign(slope_a) != np.sign(slope_b)' is made after
\* slope_b = 1 / slope_b: a zero slope_b has become an infinity of sign zs.
SignMismatch_never(sa, sb, zs) == FALSE

SignMismatch(sa, sb, zs) == sa # (IF sb = 0 THEN zs ELSE sb)

RegData ==
    { [x |-> <<0, 1, 2, 3>>, y |-> <<1, 3, 4, 7>>],
      [x |-> <<0, 1, 2, 3>>, y |-> <<6, 4, 2, 0>>],
      [x |-> <<0, 1, 2>>, y |-> <<0, 1, 0>>],
      [x |-> <<1, 2, 3, 4>>, y |-> <<2, 1, 4, 3>>],
      [x |-> <<2, 0, 1>>, y |-> <<1, 5, 5>>] }

Types1 == {"default", "OLS", "weighted least square", "RLM", "least absolute"}

\* _weight_x / _weight_y: the default [], or one weight per sample.
Weights(n) ==
    { <<>>, Ones(n), [i \in 1..n |-> IF i = 1 THEN 4 ELSE 1],
      [i \in 1..n |-> IF i = n THEN 4 ELSE 1] }

InitReg ==
    /\ InitNavis
    /\ csv = Idle /\ batch = Idle /\ meta = Idle /\ pjm = Idle
    /\ provor = Idle
    /\ proc = Idle
    /\ npq = Idle
    /\ \E z \in RegData, t1 \in Types1, ni \in BOOLEAN, t2 \in {"reduced major axis", "geometric mean", "major axis",
                  "arithmetic mean"} :
          \E wx \in Weights(Len(z.x)), wy \in Weights(Len(z.x)) :
             reg = [pc |-> "call", x |-> z.x, y |-> z.y,
                    method_type_1 |-> t1, method_type_2 |-> t2,
                    weight_x |-> wx, weight_y |-> wy, need_intercept |-> ni,
                    slope_a |-> 0, slope_b |-> 0, out |-> "none",
                    intercept |-> NaN, msg |-> "none"]

\* res = regress2(x, y, ...) for the reduced major axis: slope_a and slope_b
\* hold the signs of the two Type-I slopes (y on x, x on y) when they were
\* computed; out is "fit" (slope, intercept, r, ... returned), "empty" ({}
\* returned after a message) or "raised".  The robust fit is iterative: its
\* two signs are taken as they come.  intercept is 0 when the constant is
\* suppressed, else mean(y) - slope * mean(x) (medians for the other fits).
RegressRMA ==
    /\ reg.pc = "call"
    /\ reg.method_type_2 \in {"reduced major axis", "geometric mean"}
    /\ LET t1 == IF reg.method_type_1 = "default" THEN "ordinary least square"
                 ELSE reg.method_type_1
           IsOLS == t1 \in {"OLS", "ordinary least square"}
           IsWLS == t1 \in {"WLS", "weighted least square"}
           IsRLM == t1 \in {"RLM", "robust linear model"}
           known == IsOLS \/ IsWLS \/ IsRLM
           unweighted == IsWLS /\ (reg.weight_x = <<>> \/ reg.weight_y = <<>>)
       IN \E sa \in {0 - 1, 0, 1}, sb \in {0 - 1, 0, 1}, zs \in {0 - 1, 1} :
             /\ IsOLS =>
                   /\ sa = SlopeSign(Ones(Len(reg.x)), reg.x, reg.y, reg.need_intercept)
                   /\ sb = SlopeSign(Ones(Len(reg.x)), reg.y, reg.x, reg.need_intercept)
             /\ (IsWLS /\ ~unweighted) =>
                   /\ sa = SlopeSign(Recip(reg.weight_y), reg.x, reg.y, reg.need_intercept)
                   /\ sb = SlopeSign(Recip(reg.weight_x), reg.y, reg.x, reg.need_intercept)
             /\ (~known \/ unweighted) => (sa = 0 /\ sb = 0)
             /\ (sb # 0 \/ ~known \/ unweighted) => zs = 1
             /\ reg' = [reg EXCEPT
                          !.pc = "done",
                          !.slope_a = sa,
                          !.slope_b = sb,
                          !.out = CASE ~known -> "empty"
                                    [] unweighted -> "raised"
                                    [] SignMismatch(sa, sb, zs) -> "empty"
                                    [] OTHER -> "fit",
                          !.intercept =
                              IF ~known \/ unweighted \/ SignMismatch(sa, sb, zs)
                              THEN NaN
                              ELSE IF reg.need_intercept
                              THEN [fn |-> "rma", sign |-> sa]
                              ELSE Q(0, 1),
                          !.msg = CASE ~known -> "Unknon method type 1"
                                    [] unweighted -> "none"
                                    [] SignMismatch(sa, sb, zs) ->
                                         "Regression Type I are of opposite sign"
                                    [] OTHER -> "none"]
    /\ UNCHANGED navis_vars
    /\ UNCHANGED <<provor, proc, npq>>
    /\ UNCHANGED tool_vars

\* The intercept of the arithmetic mean: ym - xm * slope with the samples
\* sorted by x (sorted() is stable), x1, y1 the samples 1..sg and x2, y2 the
\* samples sg..n-1 (0-based), slope = (x2m - x1m) / (y2m - y1m).  A zero
\* denominator gives an infinity or NaN.
ArithmeticIntercept(x, y) ==
    LET n == Len(x)
        sg == n \div 2
        si == CHOOSE f \in Permutations(1..n) :
                 \A i, j \in 1..n :
                    i < j => (x[f[i]] < x[f[j]] \/ (x[f[i]] = x[f[j]] /\ f[i] < f[j]))
        x1 == [i \in 1..sg |-> x[si[i + 1]]]
        y1 == [i \in 1..sg |-> y[si[i + 1]]]
        x2 == [i \in 1..(n - sg) |-> x[si[i + sg]]]
        y2 == [i \in 1..(n - sg) |-> y[si[i + sg]]]
        n1 == sg
        n2 == n - sg
        sn == Sum(x2) * n1 - Sum(x1) * n2
        sd == Sum(y2) * n1 - Sum(y1) * n2
    IN IF sd = 0 THEN NaN
       ELSE Rat((Sum(y1) * n2 + Sum(y2) * n1) * sd - (Sum(x1) * n2 + Sum(x2) * n1) * sn,
                2 * n1 * n2 * sd)

\* res = regress2(x, y, ...) for the major axis and the arithmetic mean:
\* no Type-I regression is made.  With the constant suppressed a message is
\* printed and the computation goes on as with it.  The arithmetic mean
\* slices with sg = np.floor(n / 2), a float: numpy truncates the index or
\* raises TypeError, depending on its version.
RegressOther ==
    /\ reg.pc = "call"
    /\ reg.method_type_2 \in {"major axis", "arithmetic mean"}
    /\ \E raises \in BOOLEAN :
          /\ reg.method_type_2 = "major axis" => ~raises
          /\ reg' = [reg EXCEPT
                       !.pc = "done",
                       !.msg = IF reg.need_intercept THEN "none"
                               ELSE "This method require an intercept",
                       !.out = IF raises THEN "raised" ELSE "fit",
                       !.intercept =
                           IF raises THEN NaN
                           ELSE IF reg.method_type_2 = "major axis"
                           THEN [fn |-> "major axis"]
                           ELSE ArithmeticIntercept(reg.x, reg.y)]
    /\ UNCHANGED navis_vars
    /\ UNCHANGED <<provor, proc, npq>>
    /\ UNCHANGED tool_vars

NextReg == RegressRMA \/ RegressOther

SpecReg == InitReg /\ [][NextReg]_vars

\* The two Type-I slopes were computed by this call.
SlopesComputed ==
    /\ reg.pc = "done"
    /\ reg.out # "raised"
    /\ reg.method_type_1 # "least absolute"

\* C20: the reduced major axis returns no relation when one Type-I slope is
\* positive and the other negative, and a relation only when they are not
\* of opposite signs.
C20_SignMismatch ==
    SlopesComputed =>
        /\ reg.slope_a * reg.slope_b < 0 => reg.out = "empty"
        /\ reg.out = "fit" => reg.slope_a * reg.slope_b >= 0

\* Weighted fits of opposite signs on the same data, ended without relation.
C20_Witness ==
    /\ reg.pc = "done"
    /\ reg.method_type_1 = "weighted least square"
    /\ reg.slope_a * reg.slope_b < 0
    /\ reg.out = "empty"

\* y decreases linearly in x: all samples lie on one line of negative slope.
AntiCorrelated ==
    /\ reg.x[1] # reg.x[2]
    /\ (reg.y[2] - reg.y[1]) * (reg.x[2] - reg.x[1]) < 0
    /\ \A i \in 1..Len(reg.x) :
          (reg.y[i] - reg.y[1]) * (reg.x[2] - reg.x[1])
            = (reg.y[2] - reg.y[1]) * (reg.x[i] - reg.x[1])

RmaDone ==
    /\ reg.pc = "done"
    /\ reg.method_type_2 \in {"reduced major axis", "geometric mean"}

C22_InterceptSuppressed ==
    (reg.pc = "done" /\ ~reg.need_intercept) =>
        /\ (reg.method_type_2 # "major axis" /\ reg.out = "fit") =>
               reg.intercept = Q(0, 1)
        /\ reg.method_type_2 = "arithmetic mean" => reg.out = "fit"
        /\ reg.method_type_2 = "major axis" =>
               /\ reg.out # "fit"
               /\ reg.msg = "This method require an intercept"

-----------------------------------------------------------------------------
(* Further properties of process_L1 and process_L2 *)

-----------------------------------------------------------------------------
(* export_csv.  The obs mapping of the profile is given by the order of its *)
(* keys and the length of each channel; a cell of the file names the key   *)
(* and the sample index it was read from.                                  *)

MaxSamples == 2

\* export_csv(_msg, _usr_cfg, _app_cfg, _proc_level): ret is 0 or -1,
\* raised tells that an IndexError ended the call; header is the first row
\* written (<<>> when no file was opened) and rows the data rows written.
export_csv(order, len, sensors, proc_level) ==
    LET keys == {order[i] : i \in 1..Len(order)}
        RECURSIVE FromCfg(_)
        \* the loop over _usr_cfg['sensors'].values(), from sensor i on
        FromCfg(i) ==
            IF i > Len(sensors) THEN <<>>
            ELSE SelectSeq(sensors[i].keys,
                           LAMBDA k : k \notin LIST_SENSOR_SPECIAL_FIELDS /\ k \in keys)
                 \o FromCfg(i + 1)
        listed == <<"datetime", "lat", "lon">> \o FromCfg(1)
        fields == listed \o SelectSeq(order,
                                      LAMBDA k : \A j \in 1..Len(listed) : listed[j] # k)
        Cell(k, i) == [key |-> k, i |-> i]
        Row(i) == <<Cell("datetime", 0), Cell("lat", 0), Cell("lon", 0)>>
                  \o [j \in 1..(Len(fields) - 3) |-> Cell(fields[j + 3], i)]
        n == IF Len(fields) > 3 THEN len[fields[4]] ELSE 0
        short == {i \in 1..n : \E j \in 4..Len(fields) : len[fields[j]] < i}
        written == IF short = {} THEN n
                   ELSE (CHOOSE i \in short : \A j \in short : i <= j) - 1
    IN IF proc_level \notin {"RAW", "L0", "L1", "L2"}
       THEN [ret |-> 0 - 1, raised |-> FALSE, header |-> <<>>, rows |-> <<>>]
       ELSE [ret |-> 0,
             raised |-> Len(fields) <= 3 \/ short # {},
             header |-> fields,
             rows |-> [i \in 1..written |-> Row(i)]]

\* Key orders of obs mappings: a Navis profile as decoded, the same with the
\* cRover channels, a Level-1 profile with oxygen, a Level-2 profile.
CsvOrders ==
    LET navis == <<"p", "t", "s", "o2_ph", "o2_t", "fchl", "beta", "fdom",
                   "par", "tilt", "tilt_std">>
    IN { navis,
         navis \o <<"c_count", "c_su">>,
         <<"p", "t", "s", "o2_t", "o2_c", "fchl", "beta", "fdom", "par", "tilt", "tilt_std">>,
         <<"p", "s", "par", "tilt", "tilt_std", "c_su">> }

\* The channels of a profile have one length, except the cRover channels
\* of a transmission whose cRover line came after the first rows.  The
\* configurations are those of process_L1 and one whose optode lists the
\* temperature channel of the CTD.
InitCsv ==
    /\ InitNavis
    /\ provor = Idle /\ proc = Idle /\ npq = Idle /\ reg = Idle
    /\ batch = Idle /\ meta = Idle /\ pjm = Idle
    /\ \E order \in CsvOrders, n \in 0..MaxSamples, late \in 0..1,
          sensors \in Configs \cup
                      {<<Sensor("CTD", "SBE41CP", <<"p", "t", "s">>),
                         Sensor("O2", "Oxygen Optode 4330", <<"o2_c1", "t">>)>>},
          proc_level \in {"L0", "L1", "L2", "L3"} :
          /\ late <= n
          /\ csv = [pc |-> "call", order |-> order,
                    len |-> [k \in {order[i] : i \in 1..Len(order)} |->
                               IF k \in {"c_count", "c_su"} THEN n - late ELSE n],
                    sensors |-> sensors, proc_level |-> proc_level,
                    out |-> [ret |-> 0, raised |-> FALSE, header |-> <<>>, rows |-> <<>>]]

ExportCsv ==
    /\ csv.pc = "call"
    /\ csv' = [csv EXCEPT
                 !.pc = "done",
                 !.out = export_csv(csv.order, csv.len, csv.sensors, csv.proc_level)]
    /\ UNCHANGED navis_vars
    /\ UNCHANGED <<provor, proc, npq, reg, batch, meta, pjm>>

SpecCsv == InitCsv /\ [][ExportCsv]_vars

\* C24: the header written by export_csv is datetime, lat, lon, then the
\* channels of the sensor configuration, in its order, that the profile
\* holds, then the other channels of the profile; no name is written twice,
\* and there is one data row per sample, with one value per column.
C24_HeaderAndRows ==
    (csv.pc = "done" /\ csv.out.ret = 0) =>
        LET h == csv.out.header
            keys == {csv.order[i] : i \in 1..Len(csv.order)}
            cfg == {k \in keys :
                      \E i \in 1..Len(csv.sensors) :
                         \E j \in 1..Len(csv.sensors[i].keys) :
                            /\ csv.sensors[i].keys[j] = k
                            /\ k \notin LIST_SENSOR_SPECIAL_FIELDS}
            ncfg == Cardinality(cfg)
            \* position of a configured channel in the configuration
            Pos(k) == CHOOSE x \in UNION {{<<i, j>> : j \in 1..Len(csv.sensors[i].keys)} :
                                           i \in 1..Len(csv.sensors)} :
                         csv.sensors[x[1]].keys[x[2]] = k
            \* position of a key in the obs mapping
            At(k) == CHOOSE i \in 1..Len(csv.order) : csv.order[i] = k
        IN /\ Len(h) = 3 + Cardinality(keys)
           /\ SubSeq(h, 1, 3) = <<"datetime", "lat", "lon">>
           /\ {h[i] : i \in 4..Len(h)} = keys
           /\ {h[i] : i \in 4..(3 + ncfg)} = cfg
           /\ \A i, j \in 4..(3 + ncfg) :
                 i < j => \/ Pos(h[i])[1] < Pos(h[j])[1]
                          \/ Pos(h[i])[1] = Pos(h[j])[1] /\ Pos(h[i])[2] < Pos(h[j])[2]
           /\ \A i, j \in (4 + ncfg)..Len(h) : i < j => At(h[i]) < At(h[j])
           /\ ~csv.out.raised
           /\ Len(csv.out.rows) = csv.len["p"]
           /\ \A i \in 1..Len(csv.out.rows) :
                 /\ Len(csv.out.rows[i]) = Len(h)
                 /\ \A j \in 4..Len(h) : csv.out.rows[i][j] = [key |-> h[j], i |-> i]

-----------------------------------------------------------------------------
(* The loop of bash over floats and messages.  A message file is named by   *)
(* the digits of the profile number in its name (NNNN.PPP.msg), and the     *)
(* ProfileId line of the file holds that number.  What the decoder,         *)
(* process_L1 and process_L2 do with a message is its outcome: "ok",        *)
(* "empty" (no sample decoded), "l1 -1", "l2 -1" or "l2 raised".            *)

MaxMsgs == 2

\* msg_list.sort(): the names in ascending order of str, character by
\* character; the '.' that ends the number sorts before every digit, so a
\* name that is a prefix of another comes first.
SortNames_reverse(S) ==
    LET Less(a, b) ==
            \E i \in 1..(Len(a) + 1) :
               /\ \A j \in 1..(i - 1) : j <= Len(b) /\ a[j] = b[j]
               /\ IF i > Len(a) THEN Len(b) >= i
                  ELSE i <= Len(b) /\ a[i] < b[i]
    IN CHOOSE q \in [1..Cardinality(S) -> S] :
          /\ \A a \in S : \E i \in 1..Cardinality(S) : q[i] = a
          /\ \A i \in 1..(Cardinality(S) - 1) : Less(q[i + 1], q[i])

SortNames(S) ==
    LET Less(a, b) ==
            \E i \in 1..(Len(a) + 1) :
               /\ \A j \in 1..(i - 1) : j <= Len(b) /\ a[j] = b[j]
               /\ IF i > Len(a) THEN Len(b) >= i
                  ELSE i <= Len(b) /\ a[i] < b[i]
    IN CHOOSE q \in [1..Cardinality(S) -> S] :
          /\ \A a \in S : \E i \in 1..Cardinality(S) : q[i] = a
          /\ \A i \in 1..(Cardinality(S) - 1) : Less(q[i], q[i + 1])

\* The message files a float directory can hold: at most MaxMsgs files of
\* different profile numbers, written with three digits or without padding.
InitBatch ==
    /\ InitNavis
    /\ provor = Idle /\ proc = Idle /\ npq = Idle /\ reg = Idle
    /\ csv = Idle /\ meta = Idle /\ pjm = Idle
    /\ \E d1 \in SUBSET {<<0, 0, 8>>, <<0, 0, 9>>, <<0, 1, 0>>, <<8>>, <<9>>, <<1, 0>>},
          d2 \in {{}, {<<0, 0, 1>>}}, dash \in BOOLEAN :
          LET Id(a) == IF Len(a) = 1 THEN a[1] ELSE 10 * a[Len(a) - 1] + a[Len(a)]
          IN /\ Cardinality(d1) <= MaxMsgs
             /\ \A a, b \in d1 : Id(a) = Id(b) => a = b
             /\ batch = [pc |-> "float", dirs |-> <<d1, d2>>, dashboard |-> dash,
                         fi |-> 0, msg_list |-> <<>>, msg_db |-> "unbound",
                         loaded |-> <<>>, appended |-> <<>>, failed |-> <<>>,
                         cause |-> "none", ret |-> "none"]

\* for (usr_id, usr_cfg_name) in zip(...): the next float, its messages
\* listed and sorted; return 0 after the last float.
ListMsgs ==
    /\ batch.pc = "float"
    /\ IF batch.fi = Len(batch.dirs)
       THEN batch' = [batch EXCEPT !.pc = "done", !.ret = "0"]
       ELSE batch' = [batch EXCEPT
                        !.pc = "msg",
                        !.fi = @ + 1,
                        !.msg_list = SortNames(batch.dirs[batch.fi + 1])]
    /\ UNCHANGED navis_vars
    /\ UNCHANGED <<provor, proc, npq, reg, csv, meta, pjm>>

\* for msg_name in msg_list: one message, or the end of the list.  msg_db
\* is a local of bash that the first message to reach line 1261 or 1263
\* binds; export_msg_to_json_contour_plot is defined nowhere.
LoopMsg ==
    /\ batch.pc = "msg"
    /\ IF batch.msg_list = <<>>
       THEN batch' = [batch EXCEPT !.pc = "float"]
       ELSE \E outcome \in {"ok", "empty", "l1 -1", "l2 -1", "l2 raised"} :
              LET name == Head(batch.msg_list)
                  profile_id == IF Len(name) = 1 THEN name[1]
                                ELSE 10 * name[Len(name) - 1] + name[Len(name)]
                  msg == [fi |-> batch.fi, name |-> name, profile_id |-> profile_id]
                  b0 == [batch EXCEPT !.msg_list = Tail(@),
                                      !.loaded = Append(@, msg)]
                  Stop(b, cause, r) == [b EXCEPT !.pc = "done", !.cause = cause, !.ret = r]
                  To(b, what) == [b EXCEPT !.appended = Append(@, msg @@ [to |-> what])]
              IN batch' =
                   CASE outcome = "l1 -1" ->
                          IF batch.msg_db = "unbound"
                          THEN Stop([b0 EXCEPT !.failed = Append(@, msg)],
                                    "UnboundLocalError", "raised")
                          ELSE [b0 EXCEPT !.failed = Append(@, msg)]
                     [] outcome = "l2 -1" ->
                          Stop([b0 EXCEPT !.failed = Append(@, msg)], "l2 -1", "-1")
                     [] outcome = "l2 raised" ->
                          Stop([b0 EXCEPT !.failed = Append(@, msg)], "l2 raised", "raised")
                     [] outcome = "empty" ->
                          IF batch.dashboard
                          THEN To([b0 EXCEPT !.msg_db = "bound"], "update_db")
                          ELSE [b0 EXCEPT !.msg_db = "bound"]
                     [] OTHER ->
                          IF batch.dashboard
                          THEN Stop(To([b0 EXCEPT !.msg_db = "bound"], "timeseries"),
                                    "NameError", "raised")
                          ELSE [b0 EXCEPT !.msg_db = "bound"]
    /\ UNCHANGED navis_vars
    /\ UNCHANGED <<provor, proc, npq, reg, csv, meta, pjm>>

NextBatch == ListMsgs \/ LoopMsg

SpecBatch == InitBatch /\ [][NextBatch]_vars

\* The number of message files of the run.
BatchFiles == Cardinality(batch.dirs[1]) + Cardinality(batch.dirs[2])

\* C25: when process_L1 or process_L2 fails for a profile, the run goes on:
\* a run that ended for no other reason has loaded every message of every
\* float.
C25_SkipAndContinue ==
    (batch.pc = "done" /\ batch.failed # <<>> /\ batch.cause # "NameError") =>
        /\ batch.ret = "0"
        /\ Len(batch.loaded) = BatchFiles

\* C27 as stated: the messages of one float are processed, and given to the
\* float's aggregates, in strictly ascending order of profile id, whatever
\* files the directory holds.
C27_AscendingIds ==
    batch.pc # "idle" =>
        /\ \A i, j \in 1..Len(batch.loaded) :
              (i < j /\ batch.loaded[i].fi = batch.loaded[j].fi) =>
                  batch.loaded[i].profile_id < batch.loaded[j].profile_id
        /\ \A i, j \in 1..Len(batch.appended) :
              (i < j /\ batch.appended[i].fi = batch.appended[j].fi) =>
                  batch.appended[i].profile_id < batch.appended[j].profile_id

\* C27, amended: the messages of one float are processed in ascending order
\* of file name; when the names of the directory write the profile number
\* with the same number of digits, this is strictly ascending order of
\* profile id, for the processing and for what the aggregates are given.
C27_AscendingNames ==
    batch.pc # "idle" =>
        /\ \A i, j \in 1..Len(batch.loaded) :
              (/\ i < j
               /\ batch.loaded[i].fi = batch.loaded[j].fi
               /\ Len(batch.loaded[i].name) = Len(batch.loaded[j].name)) =>
                  batch.loaded[i].profile_id < batch.loaded[j].profile_id
        /\ \A i, j \in 1..Len(batch.appended) :
              (/\ i < j
               /\ batch.appended[i].fi = batch.appended[j].fi
               /\ Len(batch.appended[i].name) = Len(batch.appended[j].name)) =>
                  batch.appended[i].profile_id < batch.appended[j].profile_id

\* Profiles 9 and 10 of one float, named 009 and 010, both given to
\* update_db, in this order.
C27_Witness ==
    /\ batch.pc = "done"
    /\ Len(batch.appended) >= 2
    /\ batch.appended[1].name = <<0, 0, 9>>
    /\ batch.appended[2].name = <<0, 1, 0>>
    /\ batch.appended[2].to = "update_db"

-----------------------------------------------------------------------------
(* convert_msg2pjm: the plain-jane copy of a Navis message, process.py 467-566 *)

\* The number of lines of the message file.
MaxFile == 9

\* The marker texts the tests of convert_msg2pjm look for; a line is a
\* sequence of one-character strings, "\n" the terminator.
PjmText ==
    [ date_header |-> <<"$">> \o Rep(" ", 24) \o <<"D", "a", "t", "e">> \o Rep(" ", 8)
                        \o <<"p">> \o Rep(" ", 7) \o <<"t">> \o Rep(" ", 6) \o <<"s">>,
      park_header |-> <<"$">> \o Rep(" ", 7) \o <<"p">> \o Rep(" ", 7) \o <<"t">>
                        \o Rep(" ", 6) \o <<"s">>,
      park_obs    |-> <<"P", "a", "r", "k", "O", "b", "s">>,
      gps_fix     |-> <<"#", " ", "G", "P", "S", " ", "f", "i", "x">>,
      park_sample |-> <<"(", "P", "a", "r", "k", " ", "S", "a", "m", "p", "l", "e", ")">>,
      ser1        |-> <<"s", "e", "r", "1">>,
      tilt        |-> <<"t", "i", "l", "t", ":", " ", "y", "e", "s">>,
      zeros       |-> Rep("0", 14),
      resm        |-> <<"R", "e", "s", "m">> ]

\* The body of the loop 'for l in fr' (486-566) for one line ln read with the
\* flags f: the flags after the line, the branch that handled it and the
\* text written to the output file (<<>> when nothing is written). The
\* reformatting of a ParkObs line (502-509) is kept as the token "ParkPts"
\* followed by the last character of the line.
convert_msg2pjm(f, ln) ==
    LET Has(sub) == \E i \in 1..(Len(ln) - Len(sub) + 1) :
                        SubSeq(ln, i, i + Len(sub) - 1) = sub
        Starts(sub) == Slice(ln, 0, Len(sub)) = sub
        last == <<ln[Len(ln)]>>
        Out(fl, br, w) == [flags |-> fl, branch |-> br, wrote |-> w, raised |-> FALSE]
    IN IF Len(ln) = 1 THEN Out(f, "empty", <<>>)
       ELSE IF Has(PjmText.date_header) THEN Out(f, "date", <<>>)
       ELSE IF Has(PjmText.park_header)
       THEN Out([f EXCEPT !.park_sample_flag = TRUE], "park header",
                PjmText.park_header \o last)
       ELSE IF Has(PjmText.park_obs) /\ ~f.engineering_flag
       THEN Out(f, "ParkObs", <<"ParkPts">> \o last)
       ELSE IF f.park_sample_flag
       THEN IF Starts(PjmText.gps_fix)
            THEN Out([f EXCEPT !.park_sample_flag = FALSE, !.engineering_flag = TRUE],
                     "park sample", ln)
            ELSE IF ln[1] = "#"
            THEN Out([f EXCEPT !.park_sample_flag = FALSE, !.profile_header_flag = TRUE],
                     "park sample", ln)
            ELSE IF Has(PjmText.park_sample)
            THEN Out(f, "park sample",
                     Slice(ln, 0, 24) \o <<" ">> \o PjmText.park_sample \o last)
            ELSE Out(f, "park sample", Slice(ln, 0, 24) \o last)
       ELSE IF f.profile_header_flag
       THEN IF Starts(PjmText.ser1) \/ Has(PjmText.tilt)
            THEN Out([f EXCEPT !.profile_header_flag = FALSE, !.profile_flag = TRUE],
                     "profile header", <<>>)
            ELSE [flags |-> f, branch |-> "profile header", wrote |-> <<>>,
                  raised |-> TRUE]
       ELSE IF f.profile_flag
       THEN IF Starts(PjmText.zeros) THEN Out(f, "profile", <<>>)
            ELSE IF Starts(PjmText.resm)
            THEN Out([f EXCEPT !.profile_flag = FALSE, !.engineering_flag = TRUE],
                     "profile", <<>>)
            ELSE Out(f, "profile", Slice(ln, 0, 14) \o last)
       ELSE IF Has(PjmText.gps_fix)
       THEN Out([f EXCEPT !.engineering_flag = TRUE], "gps", ln)
       ELSE Out(f, "other", ln)

\* The two files are open and the four flags are False (482-485).
InitPjm ==
    /\ InitNavis
    /\ provor = Idle /\ proc = Idle /\ npq = Idle /\ reg = Idle
    /\ csv = Idle /\ batch = Idle /\ meta = Idle
    /\ pjm = [pc |-> "read", n |-> 0, line |-> <<>>, branch |-> "none",
              wrote |-> <<>>,
              flags |-> [park_sample_flag |-> FALSE, profile_header_flag |-> FALSE,
                         profile_flag |-> FALSE, engineering_flag |-> FALSE]]

\* One turn of the loop on the next line of the file; a line without a
\* terminator is the last of the file, and a ValueError ends the call.
ReadPjm ==
    /\ pjm # Idle
    /\ pjm.pc = "read"
    /\ pjm.n < MaxFile
    /\ \E ln \in { <<"\n">>,
                   PjmText.date_header \o <<"\n">>,
                   PjmText.park_header \o <<"\n">>,
                   PjmText.park_obs \o <<":", " ", "1", "\n">>,
                   PjmText.gps_fix \o <<"\n">>,
                   <<"#", " ", "N", "o", "v", "\n">>,
                   Rep("9", 24) \o <<" ">> \o PjmText.park_sample \o <<"\n">>,
                   Rep("9", 26) \o <<"\n">>,
                   PjmText.ser1 \o <<":", "\n">>,
                   <<"x", " ">> \o PjmText.tilt \o <<"\n">>,
                   PjmText.zeros \o Rep("0", 4) \o <<"\n">>,
                   PjmText.resm \o <<"=", "7", "\n">>,
                   Rep("A", 14) \o Rep("B", 6) \o <<"\n">>,
                   <<"0", "1", "\n">>,
                   Rep("A", 14) \o Rep("C", 4),
                   <<"A", "p", "f", "\n">> } :
          LET r == convert_msg2pjm(pjm.flags, ln)
          IN pjm' = [pc |-> IF r.raised THEN "raised"
                            ELSE IF ln[Len(ln)] # "\n" THEN "done" ELSE "read",
                     n |-> pjm.n + 1, line |-> ln, branch |-> r.branch,
                     wrote |-> r.wrote, flags |-> r.flags]
    /\ UNCHANGED navis_vars
    /\ UNCHANGED <<provor, proc, npq, reg, csv, batch, meta>>

SpecPjm == InitPjm /\ [][ReadPjm]_vars

\* C29: a non-empty line read while the profile flag is set and that does not
\* start with 'Resm' is written as its first 14 characters and its terminator, or
\* not at all when it starts with 14 zeros; the line that ends the profile
\* header and the 'Resm' line are not written; and a line read after the
\* engineering flag was set is never handled as a profile row.
C29_PlainJane ==
    [][pjm'.n = pjm.n + 1 =>
          LET ln == pjm'.line
              resm == Slice(ln, 0, 4) = PjmText.resm
          IN /\ (pjm.flags.profile_flag /\ ~resm /\ Len(ln) > 1) =>
                    pjm'.wrote = IF Slice(ln, 0, 14) = PjmText.zeros THEN <<>>
                                 ELSE Slice(ln, 0, 14) \o <<"\n">>
             /\ (pjm'.branch = "profile header" \/ (pjm.flags.profile_flag /\ resm)) =>
                    pjm'.wrote = <<>>
             /\ pjm.flags.engineering_flag => pjm'.branch # "profile"]_vars

-----------------------------------------------------------------------------
(* update_db: the meta table of the dashboard database, dashboard.py 98-174 *)

\* The number of calls of update_db.
MaxCalls == 3

\* update_db always inserting a row.
update_db_insert(rows, msg, wmo) ==
    Append(rows, [id |-> Len(rows) + 1, wmo |-> wmo, profile |-> msg.profile_id,
                  dt_deploy |-> None, lat_deploy |-> 0 - 9999, lon_deploy |-> 0 - 9999,
                  dt_report |-> msg.dt, lat_report |-> msg.lat,
                  lon_report |-> msg.lon])

\* The rows of meta after update_db(_msg, _usr_cfg, _app_cfg) on the rows
\* given. The table is the one the queries name: id is the integer key
\* SQLite assigns (one more than the largest, no row is ever deleted) and
\* 'wmo = ?' matches on the number. '' of dt_deploy is None; the columns
\* lab_id, pi, project, model and status, rewritten from _usr_cfg and 'NA'
\* by every call, are left out.
update_db(rows, msg, wmo) ==
    LET first == msg.profile_id = 0
        dt_deploy == IF first THEN msg.dt ELSE None
        lat_deploy == IF first THEN msg.lat ELSE 0 - 9999
        lon_deploy == IF first THEN msg.lon ELSE 0 - 9999
        entries == SelectSeq(rows, LAMBDA r : r.wmo = wmo)
    IN IF entries = <<>>
       THEN Append(rows, [id |-> Len(rows) + 1, wmo |-> wmo,
                          profile |-> msg.profile_id,
                          dt_deploy |-> dt_deploy, lat_deploy |-> lat_deploy,
                          lon_deploy |-> lon_deploy,
                          dt_report |-> msg.dt, lat_report |-> msg.lat,
                          lon_report |-> msg.lon])
       ELSE [i \in DOMAIN rows |->
               IF rows[i].id # entries[1].id THEN rows[i]
               ELSE IF dt_deploy = None
               THEN [rows[i] EXCEPT !.wmo = wmo, !.profile = msg.profile_id,
                                    !.dt_report = msg.dt, !.lat_report = msg.lat,
                                    !.lon_report = msg.lon]
               ELSE [rows[i] EXCEPT !.wmo = wmo, !.profile = msg.profile_id,
                                    !.dt_deploy = dt_deploy,
                                    !.lat_deploy = lat_deploy,
                                    !.lon_deploy = lon_deploy,
                                    !.dt_report = msg.dt, !.lat_report = msg.lat,
                                    !.lon_report = msg.lon]]

\* An empty meta table; calls is the history of the calls made.
InitDb ==
    /\ InitNavis
    /\ provor = Idle /\ proc = Idle /\ npq = Idle /\ reg = Idle
    /\ csv = Idle /\ batch = Idle /\ pjm = Idle
    /\ meta = [rows |-> <<>>, calls |-> <<>>]

\* One call of update_db, for one of two floats, with a profile whose
\* position may be missing (lat and lon None when no fix line was read).
UpdateDb ==
    /\ meta # Idle
    /\ Len(meta.calls) < MaxCalls
    /\ \E wmo \in {5904183, 5904184}, profile_id \in 0..2, dt \in 1..2,
          fix \in BOOLEAN :
          LET msg == [profile_id |-> profile_id, dt |-> dt,
                      lat |-> IF fix THEN 40 + dt ELSE None,
                      lon |-> IF fix THEN 0 - 60 ELSE None]
          IN meta' = [rows |-> update_db(meta.rows, msg, wmo),
                      calls |-> Append(meta.calls, [wmo |-> wmo, msg |-> msg])]
    /\ UNCHANGED navis_vars
    /\ UNCHANGED <<provor, proc, npq, reg, csv, batch, pjm>>

SpecDb == InitDb /\ [][UpdateDb]_vars

\* C28: the table holds one row for each WMO that some call named and no
\* other row; the row of a WMO is the one its first call inserted (its id
\* counts the floats seen up to that call) and its profile, report time and
\* report position are those of the last call for that WMO.
C28_OneRowPerWmo ==
    LET hist == meta.calls
        seen == {hist[j].wmo : j \in DOMAIN hist}
        FirstCall(w) == CHOOSE j \in DOMAIN hist :
                        hist[j].wmo = w /\ \A k \in 1..(j - 1) : hist[k].wmo # w
        LastCall(w) == CHOOSE j \in DOMAIN hist :
                        hist[j].wmo = w /\ \A k \in (j + 1)..Len(hist) : hist[k].wmo # w
    IN /\ Len(meta.rows) = Cardinality(seen)
       /\ \A w \in seen :
             \E i \in DOMAIN meta.rows :
                /\ meta.rows[i].wmo = w
                /\ \A k \in DOMAIN meta.rows : meta.rows[k].wmo = w => k = i
                /\ meta.rows[i].id = Cardinality({hist[j].wmo : j \in 1..FirstCall(w)})
                /\ meta.rows[i].profile = hist[LastCall(w)].msg.profile_id
                /\ meta.rows[i].dt_report = hist[LastCall(w)].msg.dt
                /\ meta.rows[i].lat_report = hist[LastCall(w)].msg.lat
                /\ meta.rows[i].lon_report = hist[LastCall(w)].msg.lon

\* Three calls: a float inserted, a second float inserted, the first float
\* updated with a later profile.
C28_Witness ==
    /\ meta # Idle
    /\ Len(meta.calls) = 3
    /\ meta.calls[1].wmo = meta.calls[3].wmo
    /\ meta.calls[2].wmo # meta.calls[1].wmo
    /\ meta.calls[1].msg.profile_id = 0
    /\ meta.calls[3].msg.profile_id = 1
    /\ Len(meta.rows) = 2
    /\ meta.rows[1].profile = 1

-----------------------------------------------------------------------------
(* Further properties of rt *)

====
